---- MODULE Spec2Model ----
(***************************************************************************)
(* FIO synchronisation and inventory reconciliation of PrUnderground:      *)
(* the TTL cache (app/fio_cache.py), the upstream gateway and the location *)
(* resolver (app/fio_client.py), the per-user sync (app/services/          *)
(* fio_sync.py) with its two callers (app/main.py) and the credential      *)
(* handlers (app/routers/auth.py).                                         *)
(***************************************************************************)
EXTENDS Integers, Sequences, FiniteSets, TLC

(***************************************************************************)
(* Python values.  A string-valued field that is None holds NoneStr; an    *)
(* integer column holds an integer, NULL (SQL NULL / Python None) or BAD   *)
(* (a non-empty, non-numeric text that SQLite keeps in an INTEGER column,  *)
(* as the JSON import can store).  Real quantities are far above both.     *)
(***************************************************************************)
NoneStr == "<None>"
NULL == 0 - 99
BAD == 0 - 98

TruthyStr(s) == s # NoneStr /\ s # ""
TruthyInt(n) == n # NULL /\ n # 0

Max(a, b) == IF a >= b THEN a ELSE b

EmptyDict == [k \in {} |-> 0]
DictPut(d, k, v) == [x \in (DOMAIN d) \cup {k} |-> IF x = k THEN v ELSE d[x]]
DictGet(d, k, default) == IF k \in DOMAIN d THEN d[k] ELSE default

(***************************************************************************)
(* Upstream gateway: FIOClient._get and the endpoints built on it.         *)
(* A response is [net, status, body]; net "timeout" stands for httpx       *)
(* raising (timeout, network failure).  A body is a parsed JSON value      *)
(* [json, rows]: json names its shape, rows holds the elements of a list.  *)
(***************************************************************************)
JsonNull == [json |-> "null", rows |-> <<>>]
JsonEmptyList == [json |-> "[]", rows |-> <<>>]
JsonEmptyDict == [json |-> "{}", rows |-> <<>>]
JsonDict == [json |-> "{..}", rows |-> <<>>]
JsonList(rows) == IF rows = <<>> THEN JsonEmptyList ELSE [json |-> "[..]", rows |-> rows]

\* Python truthiness of a parsed JSON value
TruthyJson(v) == v.json \in {"[..]", "{..}"}

Return(v) == [kind |-> "return", value |-> v, exc |-> "-"]
ReturnNone == [kind |-> "none", value |-> JsonNull, exc |-> "-"]
Raise(e) == [kind |-> "raise", value |-> JsonNull, exc |-> e]

\* FIOAuthError is a subclass of FIOError; both are Exceptions
IsFIOAuthError(e) == e = "FIOAuthError"
IsFIOError(e) == e \in {"FIOError", "FIOAuthError"}

Get_AuthAsGeneric(resp) ==
    IF resp.net # "ok" THEN Raise("TimeoutException")
    ELSE IF resp.status = 200 THEN Return(resp.body)
    ELSE IF resp.status = 204 THEN ReturnNone
    ELSE Raise("FIOError")

Get_204Raises(resp) ==
    IF resp.net # "ok" THEN Raise("TimeoutException")
    ELSE IF resp.status = 200 THEN Return(resp.body)
    ELSE IF resp.status = 401 THEN Raise("FIOAuthError")
    ELSE Raise("FIOError")

Get(resp) ==
    IF resp.net # "ok" THEN Raise("TimeoutException")
    ELSE IF resp.status = 200 THEN Return(resp.body)
    ELSE IF resp.status = 204 THEN ReturnNone
    ELSE IF resp.status = 401 THEN Raise("FIOAuthError")
    ELSE Raise("FIOError")

\* `x or []`
OrEmptyList(r) ==
    IF r.kind = "raise" THEN r
    ELSE IF r.kind = "return" /\ TruthyJson(r.value) THEN r
    ELSE Return(JsonEmptyList)

\* the endpoints declared `-> list[dict]`: `return await self._get(...) or []`
GetListEndpoint(resp) == OrEmptyList(Get(resp))
\* the endpoints declared `-> Optional[dict]`: `return await self._get(...)`
GetOptionalEndpoint(resp) == Get(resp)

get_user_storage(resp) == GetListEndpoint(resp)
get_user_sites(resp) == GetListEndpoint(resp)
get_user_warehouses(resp) == GetListEndpoint(resp)
get_user_planets(resp) == GetListEndpoint(resp)
get_user_info(resp) == GetOptionalEndpoint(resp)

(***************************************************************************)
(* Location resolver: extract_storage_locations.  Strings are drawn from a *)
(* closed universe; LowerOf is str.lower() on it, StrLess the ordering of  *)
(* Python strings on the lower-cased names, Trunc12 the slice [:12].       *)
(***************************************************************************)
LowerOf(s) ==
    CASE s = "Moria Station" -> "moria station"
      [] s = "Promitor" -> "promitor"
      [] s = "PROMITOR" -> "promitor"
      [] s = "Katoa" -> "katoa"
      [] s = "Unknown" -> "unknown"
      [] s = "Alice" -> "alice"
      [] s = "ALICE" -> "alice"
      [] s = "Bob" -> "bob"
      [] s = "A" -> "a"
      [] s = "B" -> "b"
      [] s = "SITE-0123456789ABCDEF" -> "site-0123456789abcdef"
      [] s = "SITE-0123456" -> "site-0123456"
      [] OTHER -> s

LowerOrder == << "a", "b", "katoa", "moria station", "promitor",
                 "site-0123456", "site-0123456789abcdef", "unknown" >>

StrRank(s) == CHOOSE i \in 1..Len(LowerOrder) : LowerOrder[i] = s
StrLess(a, b) == StrRank(a) < StrRank(b)

Trunc12(s) == IF s = "SITE-0123456789ABCDEF" THEN "SITE-0123456" ELSE s

\* site_to_planet: SiteId -> PlanetName or PlanetIdentifier
RECURSIVE SiteToPlanet(_, _)
SiteToPlanet(sites, acc) ==
    IF sites = <<>> THEN acc
    ELSE LET site == Head(sites)
             planet_name == IF TruthyStr(site.PlanetName) THEN site.PlanetName
                            ELSE site.PlanetIdentifier
         IN SiteToPlanet(Tail(sites),
                IF TruthyStr(site.SiteId) /\ TruthyStr(planet_name)
                THEN DictPut(acc, site.SiteId, planet_name) ELSE acc)

\* storage_to_location: StoreId -> LocationName or LocationNaturalId
RECURSIVE StorageToLocation(_, _)
StorageToLocation(warehouses, acc) ==
    IF warehouses = <<>> THEN acc
    ELSE LET wh == Head(warehouses)
             location_name == IF TruthyStr(wh.LocationName) THEN wh.LocationName
                              ELSE wh.LocationNaturalId
         IN StorageToLocation(Tail(warehouses),
                IF TruthyStr(wh.StoreId) /\ TruthyStr(location_name)
                THEN DictPut(acc, wh.StoreId, location_name) ELSE acc)

\* a missing AddressableId / StorageId / Type reads as ""
OrEmptyStr(s) == IF s = NoneStr THEN "" ELSE s

ResolveName_LookupBeforeName(storage, site_to_planet, storage_to_location) ==
    LET addressable_id == OrEmptyStr(storage.AddressableId)
        storage_id == OrEmptyStr(storage.StorageId)
        name == IF storage.Type = "WAREHOUSE_STORE" /\ storage_id \in DOMAIN storage_to_location
                     THEN storage_to_location[storage_id]
                ELSE IF storage.Type = "STORE" /\ addressable_id \in DOMAIN site_to_planet
                     THEN site_to_planet[addressable_id]
                ELSE IF TruthyStr(storage.Name) THEN storage.Name
                ELSE NoneStr
    IN IF TruthyStr(name) THEN name
       ELSE IF addressable_id # "" THEN Trunc12(addressable_id) ELSE "Unknown"

ResolveName_ByAddressableId(storage, site_to_planet, storage_to_location) ==
    LET addressable_id == OrEmptyStr(storage.AddressableId)
        name == IF TruthyStr(storage.Name) THEN storage.Name
                ELSE IF storage.Type = "WAREHOUSE_STORE" /\ addressable_id \in DOMAIN storage_to_location
                     THEN storage_to_location[addressable_id]
                ELSE IF storage.Type = "STORE" /\ addressable_id \in DOMAIN site_to_planet
                     THEN site_to_planet[addressable_id]
                ELSE NoneStr
    IN IF TruthyStr(name) THEN name
       ELSE IF addressable_id # "" THEN Trunc12(addressable_id) ELSE "Unknown"

ResolveName(storage, site_to_planet, storage_to_location) ==
    LET addressable_id == OrEmptyStr(storage.AddressableId)
        storage_id == OrEmptyStr(storage.StorageId)
        name == IF TruthyStr(storage.Name) THEN storage.Name
                ELSE IF storage.Type = "WAREHOUSE_STORE" /\ storage_id \in DOMAIN storage_to_location
                     THEN storage_to_location[storage_id]
                ELSE IF storage.Type = "STORE" /\ addressable_id \in DOMAIN site_to_planet
                     THEN site_to_planet[addressable_id]
                ELSE NoneStr
    IN IF TruthyStr(name) THEN name
       ELSE IF addressable_id # "" THEN Trunc12(addressable_id) ELSE "Unknown"

\* items[ticker] = items.get(ticker, 0) + amount, for the rows with a ticker
RECURSIVE MergeItems(_, _)
MergeItems(rows, acc) ==
    IF rows = <<>> THEN acc
    ELSE LET item == Head(rows)
         IN MergeItems(Tail(rows),
                IF TruthyStr(item.MaterialTicker)
                THEN DictPut(acc, item.MaterialTicker,
                             DictGet(acc, item.MaterialTicker, 0) + item.MaterialAmount)
                ELSE acc)

\* `0 + None` raises TypeError: a row with a ticker and a null amount
ItemsRaise(rows) ==
    \E i \in 1..Len(rows) :
        TruthyStr(rows[i].MaterialTicker) /\ rows[i].MaterialAmount = NULL

ResolveOne(storage, site_to_planet, storage_to_location, cx_station_names) ==
    LET name == ResolveName(storage, site_to_planet, storage_to_location)
    IN [addressable_id |-> OrEmptyStr(storage.AddressableId),
        type |-> OrEmptyStr(storage.Type),
        name |-> name,
        is_cx |-> name \in cx_station_names,
        items |-> MergeItems(storage.StorageItems, EmptyDict)]

KeyLess_NoTypeTieBreak(a, b) ==
    LET ca == IF a.is_cx THEN 0 ELSE 1
        cb == IF b.is_cx THEN 0 ELSE 1
    IN \/ ca < cb
       \/ ca = cb /\ StrLess(LowerOf(a.name), LowerOf(b.name))

\* the sort key (0 if is_cx else 1, name.lower(), 0 if type == "STORE" else 1)
KeyLess(a, b) ==
    LET ca == IF a.is_cx THEN 0 ELSE 1
        cb == IF b.is_cx THEN 0 ELSE 1
        ta == IF a.type = "STORE" THEN 0 ELSE 1
        tb == IF b.type = "STORE" THEN 0 ELSE 1
    IN \/ ca < cb
       \/ ca = cb /\ StrLess(LowerOf(a.name), LowerOf(b.name))
       \/ ca = cb /\ LowerOf(a.name) = LowerOf(b.name) /\ ta < tb

\* list.sort is stable: x goes before the first entry whose key is greater
InsertSorted(x, sorted) ==
    LET greater == {i \in 1..Len(sorted) : KeyLess(x, sorted[i])}
        pos == IF greater = {} THEN Len(sorted) + 1
               ELSE CHOOSE i \in greater : \A j \in greater : i <= j
    IN SubSeq(sorted, 1, pos - 1) \o <<x>> \o SubSeq(sorted, pos, Len(sorted))

RECURSIVE SortLocations(_, _)
SortLocations(todo, sorted) ==
    IF todo = <<>> THEN sorted
    ELSE SortLocations(Tail(todo), InsertSorted(Head(todo), sorted))

extract_storage_locations(storages, sites, warehouses, cx_station_names) ==
    LET site_to_planet == SiteToPlanet(sites, EmptyDict)
        storage_to_location == StorageToLocation(warehouses, EmptyDict)
        result == [i \in 1..Len(storages) |->
                      ResolveOne(storages[i], site_to_planet, storage_to_location,
                                 cx_station_names)]
    IN SortLocations(result, <<>>)

\* whether extract_storage_locations raises on these storages
ExtractRaises(storages) == \E i \in 1..Len(storages) : ItemsRaise(storages[i].StorageItems)

(***************************************************************************)
(* State.                                                                  *)
(***************************************************************************)
VARIABLES
    now,      \* datetime.utcnow(), in seconds
    db,       \* the committed rows: the user's fio_api_key and fio_last_synced,
              \* the user's listings and bundles
    req,      \* per request: where its handler stands, what it fetched, and
              \* the uncommitted changes its database session holds
    cache,    \* FIOCache._cache: lower-cased username -> UserFIOCache
    all_materials,  \* FIOCache._all_materials
    last,     \* the cache operation just performed
    sets,     \* how many cache entries have been stored
    gw,       \* a gateway call: the endpoint, the upstream response, the outcome
    auth,     \* a credential handler's run: the handler, its input, its outcome
    cx,       \* the exchange table, the price-sync runs and the scheduler
    loc       \* a run of the location resolver: its inputs and its result

vars == <<now, db, req, cache, all_materials, last, sets, gw, auth, cx, loc>>
cacheVars == <<cache, all_materials, last, sets>>
syncVars == <<db, req>>

SYNC_TTL_SECONDS == 600

\* the clock advances one TTL at a time, MaxTicks times
TickSeconds == SYNC_TTL_SECONDS
MaxTicks == 2

Requests == {1, 2}

(***************************************************************************)
(* Rows.                                                                   *)
(***************************************************************************)
Listing(storage_id, ticker, reserve, available) ==
    [storage_id |-> storage_id, material_ticker |-> ticker,
     reserve_quantity |-> reserve, available_quantity |-> available]

BundleItem(ticker, quantity) == [material_ticker |-> ticker, quantity |-> quantity]

Bundle(stock_mode, storage_id, items, available) ==
    [stock_mode |-> stock_mode, storage_id |-> storage_id, items |-> items,
     available_quantity |-> available]

Item(ticker, amount) == [MaterialTicker |-> ticker, MaterialAmount |-> amount]

Storage(addressable_id, storage_id, type, name, items) ==
    [AddressableId |-> addressable_id, StorageId |-> storage_id, Type |-> type,
     Name |-> name, StorageItems |-> items]

Site(site_id, planet_name, planet_identifier) ==
    [SiteId |-> site_id, PlanetName |-> planet_name, PlanetIdentifier |-> planet_identifier]

Warehouse(store_id, location_name, natural_id) ==
    [StoreId |-> store_id, LocationName |-> location_name, LocationNaturalId |-> natural_id]

(***************************************************************************)
(* TTL cache: FIOCache.                                                    *)
(***************************************************************************)
DEFAULT_TTL_SECONDS == 600

\* fio_cache = FIOCache(): the process-wide instance keeps the default TTL
ttl_seconds == DEFAULT_TTL_SECONDS

Slots == {"production", "storage", "sites", "warehouses", "suggestions", "storage_locations"}

\* Optional[CacheEntry] = None
NoEntry == [data |-> NULL, expires_at |-> NULL]

\* UserFIOCache()
EmptyBucket ==
    [production |-> NoEntry, storage |-> NoEntry, sites |-> NoEntry,
     warehouses |-> NoEntry, suggestions |-> NoEntry, storage_locations |-> NoEntry,
     last_refresh |-> NULL]

is_expired_AfterExpiry(entry) == now > entry.expires_at

is_expired(entry) == now >= entry.expires_at

make_entry_NoTtl(data) == [data |-> data, expires_at |-> now]

make_entry(data) == [data |-> data, expires_at |-> now + ttl_seconds]

CacheKey_CaseSensitive(username) == username

\* username.lower()
CacheKey(username) == LowerOf(username)

\* _get_user_cache: the map with the user's bucket created when it was missing
get_user_cache(c, username) ==
    IF CacheKey(username) \in DOMAIN c THEN c
    ELSE DictPut(c, CacheKey(username), EmptyBucket)

\* `if entry and not entry.is_expired(): return entry.data` / `return None`
ReadEntry(entry) ==
    IF entry.expires_at # NULL /\ ~is_expired(entry) THEN entry.data ELSE NULL

\* get_production, get_storage, get_sites, get_warehouses, get_suggestions,
\* get_storage_locations: the value returned
get_slot(c, slot, username) ==
    ReadEntry(get_user_cache(c, username)[CacheKey(username)][slot])

\* set_production, ..., set_storage_locations: the map afterwards
set_slot_KeepsFirst(c, slot, username, data) ==
    LET c2 == get_user_cache(c, username)
    IN IF c2[CacheKey(username)][slot] # NoEntry THEN c2
       ELSE [c2 EXCEPT ![CacheKey(username)][slot] = make_entry(data)]

set_slot(c, slot, username, data) ==
    [get_user_cache(c, username) EXCEPT ![CacheKey(username)][slot] = make_entry(data)]

get_all_materials(entry) == ReadEntry(entry)

get_last_refresh(c, username) ==
    get_user_cache(c, username)[CacheKey(username)].last_refresh

set_last_refresh(c, username) ==
    [get_user_cache(c, username) EXCEPT ![CacheKey(username)].last_refresh = now]

invalidate_user_ExactName(c, username) ==
    [k \in (DOMAIN c) \ {username} |-> c[k]]

invalidate_user(c, username) ==
    [k \in (DOMAIN c) \ {CacheKey(username)} |-> c[k]]

Usernames == {"Alice", "alice", "Bob"}

\* payloads are numbered: every set call stores one not stored before
Payloads == {sets + 1}

MaxSets == 2
MaxCacheTicks == 2
HalfTtl == DEFAULT_TTL_SECONDS \div 2

\* last: the latest call that changed the cache, the time it ran at, and whether
\* the place it wrote or dropped held anything before
NoOp == [op |-> "-", slot |-> "-", user |-> "-", data |-> NULL, at |-> 0, had |-> FALSE]
Op(op, slot, user, data, had) ==
    [op |-> op, slot |-> slot, user |-> user, data |-> data, at |-> now, had |-> had]

HasBucket(username) ==
    /\ LowerOf(username) \in DOMAIN cache
    /\ cache[LowerOf(username)] # EmptyBucket

HasEntry(slot, username) ==
    /\ LowerOf(username) \in DOMAIN cache
    /\ cache[LowerOf(username)][slot] # NoEntry

CacheSet(slot, username, data) ==
    /\ sets < MaxSets
    /\ cache' = set_slot(cache, slot, username, data)
    /\ last' = Op("set", slot, username, data, HasEntry(slot, username))
    /\ sets' = sets + 1
    /\ UNCHANGED <<now, all_materials, syncVars, gw, auth, cx, loc>>

\* get_production, ..., get_storage_locations, get_last_refresh: whatever the
\* slot, a read leaves behind the bucket that _get_user_cache created
CacheGet(username) ==
    /\ cache' = get_user_cache(cache, username)
    /\ \A slot \in Slots : get_slot(cache', slot, username) = get_slot(cache, slot, username)
    /\ UNCHANGED <<now, all_materials, last, sets, syncVars, gw, auth, cx, loc>>

CacheSetAllMaterials(data) ==
    /\ sets < MaxSets
    /\ all_materials' = make_entry(data)
    /\ last' = Op("set", "all_materials", "-", data, all_materials # NoEntry)
    /\ sets' = sets + 1
    /\ UNCHANGED <<now, cache, syncVars, gw, auth, cx, loc>>

CacheGetAllMaterials ==
    /\ get_all_materials(all_materials) \in {NULL} \cup 1..sets
    /\ UNCHANGED vars

CacheSetLastRefresh(username) ==
    /\ sets < MaxSets
    /\ cache' = set_last_refresh(cache, username)
    /\ last' = Op("set", "last_refresh", username, NULL, HasBucket(username))
    /\ sets' = sets + 1
    /\ UNCHANGED <<now, all_materials, syncVars, gw, auth, cx, loc>>

CacheInvalidate(username) ==
    /\ cache' = invalidate_user(cache, username)
    /\ last' = Op("invalidate", "-", username, NULL, HasBucket(username))
    /\ UNCHANGED <<now, all_materials, sets, syncVars, gw, auth, cx, loc>>

CacheTick ==
    /\ now + HalfTtl <= MaxCacheTicks * HalfTtl
    /\ now' = now + HalfTtl
    /\ UNCHANGED <<cache, all_materials, last, sets, syncVars, gw, auth, cx, loc>>

(***************************************************************************)
(* Reconciliation: the two loops of sync_user_fio_data.                    *)
(***************************************************************************)
\* storage_inventory[addressable_id] = items, a later location replacing an earlier
RECURSIVE BuildInventory(_, _)
BuildInventory(locations, acc) ==
    IF locations = <<>> THEN acc
    ELSE BuildInventory(Tail(locations),
                        DictPut(acc, Head(locations).addressable_id, Head(locations).items))

Bound(row, inventory) == TruthyStr(row.storage_id) /\ row.storage_id \in DOMAIN inventory

\* `listing.reserve_quantity or 0`
ReserveOf(listing) ==
    IF TruthyInt(listing.reserve_quantity) THEN listing.reserve_quantity ELSE 0

ListingAvailable_NoClamp(listing, inventory) ==
    DictGet(inventory[listing.storage_id], listing.material_ticker, 0) - ReserveOf(listing)

ListingAvailable_NoReserve(listing, inventory) ==
    Max(0, DictGet(inventory[listing.storage_id], listing.material_ticker, 0))

ListingAvailable(listing, inventory) ==
    LET items == inventory[listing.storage_id]
        actual == DictGet(items, listing.material_ticker, 0)
        reserve == ReserveOf(listing)
    IN Max(0, actual - reserve)

\* `actual - reserve` raises TypeError when the reserve is a text
ListingRaises(listing, inventory) ==
    Bound(listing, inventory) /\ ReserveOf(listing) = BAD

\* the listing loop: the listings written before the loop ends or raises
RECURSIVE ListingLoop(_, _, _, _)
ListingLoop(listings, inventory, i, written) ==
    IF i > Len(listings) THEN [written |-> written, raised |-> FALSE]
    ELSE IF ListingRaises(listings[i], inventory) THEN [written |-> written, raised |-> TRUE]
    ELSE ListingLoop(listings, inventory, i + 1,
            IF Bound(listings[i], inventory)
            THEN DictPut(written, i, ListingAvailable(listings[i], inventory))
            ELSE written)

\* `stock // bundle_item.quantity if bundle_item.quantity > 0 else 0`
CanMake_UnusableItemSkipped(item, items) ==
    LET stock == DictGet(items, item.material_ticker, 0)
    IN IF item.quantity > 0 THEN stock \div item.quantity ELSE stock

CanMake(item, items) ==
    LET stock == DictGet(items, item.material_ticker, 0)
    IN IF item.quantity > 0 THEN stock \div item.quantity ELSE 0

RECURSIVE MinCanMake(_, _, _)
MinCanMake(bundle_items, items, available) ==
    IF bundle_items = <<>> THEN available
    ELSE LET can_make == CanMake(Head(bundle_items), items)
         IN MinCanMake(Tail(bundle_items), items,
                IF available = NULL \/ can_make < available THEN can_make ELSE available)

BundleAvailable_First(bundle, inventory) ==
    IF bundle.items = <<>> THEN 0
    ELSE CanMake(bundle.items[1], inventory[bundle.storage_id])

BundleAvailable(bundle, inventory) ==
    LET available == MinCanMake(bundle.items, inventory[bundle.storage_id], NULL)
    IN IF available # NULL THEN available ELSE 0

\* `bundle_item.quantity > 0` raises TypeError when the quantity is a text
BundleRaises(bundle, inventory) ==
    /\ Bound(bundle, inventory)
    /\ \E k \in 1..Len(bundle.items) : bundle.items[k].quantity = BAD

\* the query's filter: Bundle.stock_mode == BundleStockMode.FIO_SYNC
IsFioSync(bundle) == bundle.stock_mode = "FIO_SYNC"

RECURSIVE BundleLoop(_, _, _, _)
BundleLoop(bundles, inventory, i, written) ==
    IF i > Len(bundles) THEN [written |-> written, raised |-> FALSE]
    ELSE IF ~IsFioSync(bundles[i]) THEN BundleLoop(bundles, inventory, i + 1, written)
    ELSE IF BundleRaises(bundles[i], inventory) THEN [written |-> written, raised |-> TRUE]
    ELSE BundleLoop(bundles, inventory, i + 1,
            IF Bound(bundles[i], inventory)
            THEN DictPut(written, i, BundleAvailable(bundles[i], inventory))
            ELSE written)

(***************************************************************************)
(* The inputs of the sync: rows on file and upstream responses.            *)
(***************************************************************************)
ListingTables ==
    { << Listing(NoneStr, "FEO", 0, 9),
         Listing("A", "FEO", NULL, NULL),
         Listing("A", "RAT", 2, 9),
         Listing("B", "FEO", reserve, 9) >> : reserve \in {1, BAD} }

BundleTables ==
    { << Bundle("FIO_SYNC", "A", <<BundleItem("FEO", 2), BundleItem("RAT", 1)>>, 9),
         Bundle("MANUAL", "A", <<BundleItem("FEO", 1)>>, 9),
         Bundle("FIO_SYNC", NoneStr, <<BundleItem("FEO", 1)>>, 9),
         Bundle("FIO_SYNC", "A", <<>>, 9),
         Bundle("FIO_SYNC", "B", <<BundleItem("RAT", 1), BundleItem("FEO", quantity)>>, NULL) >>
      : quantity \in {0, 3, BAD} }

StorageLists ==
    { << Storage("A", "sidA", "STORE", NoneStr,
                 <<Item("FEO", 3), Item("FEO", 2), Item("RAT", 1)>>) >>,
      << Storage("B", "sidB", "WAREHOUSE_STORE", NoneStr, <<Item("FEO", 4), Item("RAT", 8)>>),
         Storage("A", "sidA", "STORE", NoneStr, <<Item("RAT", 7)>>) >>,
      << Storage("B", "sidB", "WAREHOUSE_STORE", NoneStr, <<Item("FEO", 6), Item("RAT", 1)>>) >>,
      << Storage("A", "sidA", "STORE", NoneStr, <<Item("FEO", NULL)>>) >>,
      << Storage("A", "sidA", "STORE", "Promitor", <<Item("FEO", 1)>>),
         Storage("A", "sidA2", "WAREHOUSE_STORE", "Katoa", <<Item("FEO", 6), Item("RAT", 3)>>) >> }

SiteLists == { << Site("A", "Promitor", NoneStr) >> }
WarehouseLists == { << Warehouse("sidB", "Moria Station", NoneStr) >> }
CxStationSets == { {}, {"Moria Station"} }

Response(net, status, body) == [net |-> net, status |-> status, body |-> body]

Failures == { Response("timeout", 0, JsonNull), Response("ok", 401, JsonNull),
              Response("ok", 500, JsonNull) }

StorageResponses ==
    Failures \cup { Response("ok", 204, JsonNull), Response("ok", 200, JsonDict) }
             \cup { Response("ok", 200, JsonList(l)) : l \in StorageLists }
SiteResponses ==
    Failures \cup { Response("ok", 204, JsonNull) }
             \cup { Response("ok", 200, JsonList(l)) : l \in SiteLists }
WarehouseResponses ==
    Failures \cup { Response("ok", 204, JsonNull) }
             \cup { Response("ok", 200, JsonList(l)) : l \in WarehouseLists }

(***************************************************************************)
(* sync_user_fio_data and its callers, one request at a time per id.       *)
(***************************************************************************)
IdleReq(d) ==
    [pc |-> "idle", caller |-> "-", force |-> FALSE,
     storages |-> JsonNull, sites |-> JsonNull, warehouses |-> JsonNull,
     pend_l |-> EmptyDict, pend_b |-> EmptyDict,
     result |-> "-", client |-> "none", calls |-> 0,
     t0 |-> 0, db0 |-> d, inv |-> EmptyDict, newest |-> FALSE]

is_sync_needed_AtOrAfterTtl(last_synced) ==
    IF last_synced = NULL THEN TRUE
    ELSE now - last_synced >= SYNC_TTL_SECONDS

is_sync_needed(last_synced) ==
    IF last_synced = NULL THEN TRUE
    ELSE now - last_synced > SYNC_TTL_SECONDS

\* the writes a session holds, applied to the rows on file
ApplyWrites(rows, written) ==
    [i \in 1..Len(rows) |->
        IF i \in DOMAIN written THEN [rows[i] EXCEPT !.available_quantity = written[i]]
        ELSE rows[i]]

\* db.commit() of a session holding these writes
CommitSession(d, pend_l, pend_b) ==
    [d EXCEPT !.listings = ApplyWrites(d.listings, pend_l),
              !.bundles = ApplyWrites(d.bundles, pend_b)]

\* the except and finally blocks: return False, close the client; no rollback
FailSync(rq) == [rq EXCEPT !.pc = "returned", !.result = "False", !.client = "closed"]

\* lines 40-49: the staleness gate, the credential precondition, the client
SyncEntry_KeyBeforeGate(rq) ==
    IF ~TruthyStr(db.fio_api_key)
    THEN [rq EXCEPT !.pc = "returned", !.result = "False"]
    ELSE IF ~rq.force /\ ~is_sync_needed(db.fio_last_synced)
    THEN [rq EXCEPT !.pc = "returned", !.result = "True"]
    ELSE [rq EXCEPT !.pc = "fetch_storage", !.client = "open"]

SyncEntry_NoKeyCheck(rq) ==
    IF ~rq.force /\ ~is_sync_needed(db.fio_last_synced)
    THEN [rq EXCEPT !.pc = "returned", !.result = "True"]
    ELSE [rq EXCEPT !.pc = "fetch_storage", !.client = "open"]

SyncEntry(rq) ==
    IF ~rq.force /\ ~is_sync_needed(db.fio_last_synced)
    THEN [rq EXCEPT !.pc = "returned", !.result = "True"]
    ELSE IF ~TruthyStr(db.fio_api_key)
    THEN [rq EXCEPT !.pc = "returned", !.result = "False"]
    ELSE [rq EXCEPT !.pc = "fetch_storage", !.client = "open"]

\* dashboard_inventory calls the sync unforced, refresh_fio_data forced;
\* t0 and db0 record the time of the call and the rows on file at the call
Call(r) ==
    /\ req[r].pc = "idle"
    /\ \E caller \in {"dashboard_inventory", "refresh_fio_data"} :
          req' = [req EXCEPT ![r] =
                    SyncEntry([IdleReq(db) EXCEPT
                                  !.caller = caller,
                                  !.force = (caller = "refresh_fio_data"),
                                  !.t0 = now])]
    /\ UNCHANGED <<now, db, cacheVars, gw, auth, cx, loc>>

Fetched(rq, res, field, next) ==
    IF res.kind = "raise" THEN FailSync([rq EXCEPT !.calls = @ + 1])
    ELSE [rq EXCEPT !.calls = @ + 1, ![field] = res.value, !.pc = next]

\* newest marks the request whose storage snapshot was fetched last
FetchStorage(r) ==
    /\ req[r].pc = "fetch_storage"
    /\ \E resp \in StorageResponses :
          LET res == get_user_storage(resp)
          IN req' = [q \in Requests |->
                       IF q = r
                       THEN [Fetched(req[r], res, "storages", "fetch_sites")
                                EXCEPT !.newest = (res.kind # "raise")]
                       ELSE [req[q] EXCEPT !.newest = (@ /\ res.kind = "raise")]]
    /\ UNCHANGED <<now, db, cacheVars, gw, auth, cx, loc>>

FetchSites(r) ==
    /\ req[r].pc = "fetch_sites"
    /\ \E resp \in SiteResponses :
          req' = [req EXCEPT ![r] = Fetched(@, get_user_sites(resp), "sites", "fetch_warehouses")]
    /\ UNCHANGED <<now, db, cacheVars, gw, auth, cx, loc>>

FetchWarehouses(r) ==
    /\ req[r].pc = "fetch_warehouses"
    /\ \E resp \in WarehouseResponses :
          req' = [req EXCEPT ![r] = Fetched(@, get_user_warehouses(resp), "warehouses", "reconcile")]
    /\ UNCHANGED <<now, db, cacheVars, gw, auth, cx, loc>>

\* iterating a dict payload yields its keys, and `str.get` raises AttributeError
IsList(v) == v.json \in {"[]", "[..]"}

\* lines 57-105: resolve, reconcile and commit, with no await in between
ReconcileAndCommit(r) ==
    /\ req[r].pc = "reconcile"
    /\ \E cx_station_names \in CxStationSets :
          LET rq == req[r]
              payload_ok == /\ IsList(rq.storages) /\ IsList(rq.sites) /\ IsList(rq.warehouses)
                            /\ ~ExtractRaises(rq.storages.rows)
              storage_locations ==
                  extract_storage_locations(rq.storages.rows, rq.sites.rows,
                                            rq.warehouses.rows, cx_station_names)
              storage_inventory == BuildInventory(storage_locations, EmptyDict)
              ll == ListingLoop(db.listings, storage_inventory, 1, rq.pend_l)
              bl == BundleLoop(db.bundles, storage_inventory, 1, rq.pend_b)
          IN IF ~payload_ok
             THEN /\ req' = [req EXCEPT ![r] = FailSync(rq)]
                  /\ db' = db
             ELSE IF ll.raised
             THEN /\ req' = [req EXCEPT ![r] = FailSync([rq EXCEPT !.pend_l = ll.written])]
                  /\ db' = db
             ELSE IF bl.raised
             THEN /\ req' = [req EXCEPT ![r] =
                               FailSync([rq EXCEPT !.pend_l = ll.written,
                                                   !.pend_b = bl.written])]
                  /\ db' = db
             ELSE /\ db' = [CommitSession(db, ll.written, bl.written)
                               EXCEPT !.fio_last_synced = now]
                  /\ req' = [req EXCEPT ![r] =
                               [rq EXCEPT !.pc = "returned", !.result = "True",
                                          !.client = "closed",
                                          !.inv = storage_inventory]]
    /\ UNCHANGED <<now, cacheVars, gw, auth, cx>>

Reconcile(r) == ReconcileAndCommit(r) /\ UNCHANGED loc

\* refresh_fio_data, after the sync: log_audit adds its row and commits the
\* session, or rolls the session back when that fails
LogAudit(r) ==
    /\ req[r].pc = "returned"
    /\ req[r].caller = "refresh_fio_data"
    /\ \E audit_ok \in BOOLEAN :
          /\ db' = IF audit_ok THEN CommitSession(db, req[r].pend_l, req[r].pend_b) ELSE db
          /\ req' = [req EXCEPT ![r].pc = "audited",
                                ![r].pend_l = EmptyDict, ![r].pend_b = EmptyDict]
    /\ UNCHANGED <<now, cacheVars, gw, auth, cx, loc>>

\* refresh_fio_data: increment_stat, invalidate_user, the response
RefreshRespond(r) ==
    /\ req[r].pc = "audited"
    /\ cache' = invalidate_user(cache, db.fio_username)
    /\ req' = [req EXCEPT ![r] = IdleReq(db)]
    /\ UNCHANGED <<now, db, all_materials, last, sets, gw, auth, cx, loc>>

\* dashboard_inventory, after the sync: it reads the listings and renders;
\* the request's session ends without a commit
DashboardRender(r) ==
    /\ req[r].pc = "returned"
    /\ req[r].caller = "dashboard_inventory"
    /\ req' = [req EXCEPT ![r] = IdleReq(db)]
    /\ UNCHANGED <<now, db, cacheVars, gw, auth, cx, loc>>

Tick ==
    /\ now + TickSeconds <= MaxTicks * TickSeconds
    /\ now' = now + TickSeconds
    /\ UNCHANGED <<db, req, cacheVars, gw, auth, cx, loc>>

(***************************************************************************)
(* Gateway calls: every endpoint of FIOClient on every class of response.  *)
(***************************************************************************)
ListEndpoints ==
    {"get_all_materials", "get_all_buildings", "get_all_planets", "get_building_recipes",
     "get_recipe_outputs", "get_exchange_all", "get_user_planet_buildings", "get_user_sites",
     "get_user_planets", "get_user_production", "get_user_storage", "get_user_warehouses"}
OptionalEndpoints == {"get_material", "get_exchange", "get_company_by_code", "get_user_info"}
Endpoints == ListEndpoints \cup OptionalEndpoints

JsonFalse == [json |-> "false", rows |-> <<>>]
Bodies == {JsonNull, JsonFalse, JsonEmptyList, JsonEmptyDict, JsonDict, JsonList(<<"row">>)}
Statuses == {204, 401, 403, 404, 500, 503}

GatewayResponses ==
    { Response("timeout", 0, JsonNull) }
        \cup { Response("ok", 200, body) : body \in Bodies }
        \cup { Response("ok", status, JsonNull) : status \in Statuses }

CallEndpoint(endpoint, resp) ==
    IF endpoint \in ListEndpoints THEN GetListEndpoint(resp) ELSE GetOptionalEndpoint(resp)

NoCall == [endpoint |-> "-", resp |-> Response("-", 0, JsonNull), out |-> ReturnNone]

GatewayCall ==
    /\ \E endpoint \in Endpoints, resp \in GatewayResponses :
          gw' = [endpoint |-> endpoint, resp |-> resp, out |-> CallEndpoint(endpoint, resp)]
    /\ UNCHANGED <<now, syncVars, cacheVars, auth, cx, loc>>

(***************************************************************************)
(* Credential handlers of routers/auth.py.  Each runs as a whole on the    *)
(* responses upstream gives to its calls; the company fields it copies     *)
(* from the profile are left out.                                          *)
(***************************************************************************)
verify_api_key(r_sites, r_planets) ==
    LET sites == get_user_sites(r_sites)
        planets == get_user_planets(r_planets)
    IN IF sites.kind = "raise" THEN sites
       ELSE IF sites.kind = "none" THEN Raise("FIOAuthError")
       ELSE IF planets.kind = "raise" THEN planets
       ELSE Return(JsonDict)

\* verify_api_key, then get_user_info: the exception raised, "-" when none is
VerifyAndInfo(r_sites, r_planets, r_info) ==
    LET verified == verify_api_key(r_sites, r_planets)
        user_info == get_user_info(r_info)
    IN IF verified.kind = "raise" THEN verified.exc
       ELSE IF user_info.kind = "raise" THEN user_info.exc
       ELSE "-"

Ran(d, outcome, exc) == [db |-> d, outcome |-> outcome, exc |-> exc]

\* check_user: log in on a stored key that verifies, else prompt for a key
check_user(d, r_sites, r_planets, r_info) ==
    IF d.exists /\ TruthyStr(d.fio_api_key)
    THEN LET exc == VerifyAndInfo(r_sites, r_planets, r_info)
         IN IF exc = "-" THEN Ran(d, "login", exc) ELSE Ran(d, "prompt_api_key", exc)
    ELSE Ran(d, "prompt_api_key", "-")

connect_fio_StoresFirst(d, fio_api_key, r_sites, r_planets, r_info) ==
    LET exc == VerifyAndInfo(r_sites, r_planets, r_info)
        stored == [d EXCEPT !.exists = TRUE, !.fio_api_key = fio_api_key]
    IN IF exc # "-" THEN Ran(stored, "error_400", exc) ELSE Ran(stored, "login", exc)

\* connect_fio: verify the submitted key, then store it on the user's row,
\* created when there is none
connect_fio(d, fio_api_key, r_sites, r_planets, r_info) ==
    LET exc == VerifyAndInfo(r_sites, r_planets, r_info)
    IN IF exc # "-" THEN Ran(d, "error_400", exc)
       ELSE Ran([d EXCEPT !.exists = TRUE, !.fio_api_key = fio_api_key], "login", exc)

refresh_api_key_StoresFirst(d, fio_api_key, r_sites, r_planets, r_info) ==
    LET exc == VerifyAndInfo(r_sites, r_planets, r_info)
        stored == [d EXCEPT !.fio_api_key = fio_api_key]
    IN IF exc # "-" THEN Ran(stored, "error_400", exc) ELSE Ran(stored, "updated", exc)

\* refresh_api_key: verify the submitted key, then store it
refresh_api_key(d, fio_api_key, r_sites, r_planets, r_info) ==
    LET exc == VerifyAndInfo(r_sites, r_planets, r_info)
    IN IF exc # "-" THEN Ran(d, "error_400", exc)
       ELSE Ran([d EXCEPT !.fio_api_key = fio_api_key], "updated", exc)

AuthResponses ==
    Failures \cup { Response("ok", 204, JsonNull), Response("ok", 200, JsonDict),
                    Response("ok", 200, JsonList(<<"row">>)) }
SubmittedKeys == {"key2", "key3"}

NoRun == [handler |-> "-", submitted |-> NoneStr, outcome |-> "-", exc |-> "-",
          key0 |-> NoneStr, exists0 |-> FALSE]

\* key0 and exists0 record the stored credential before the request
Finish(handler, submitted, ran) ==
    /\ db' = ran.db
    /\ auth' = [handler |-> handler, submitted |-> submitted, outcome |-> ran.outcome,
                exc |-> ran.exc, key0 |-> db.fio_api_key, exists0 |-> db.exists]
    /\ UNCHANGED <<now, req, cacheVars, gw, cx, loc>>

CheckUser ==
    \E r_sites \in AuthResponses, r_planets \in AuthResponses, r_info \in AuthResponses :
        Finish("check_user", NoneStr, check_user(db, r_sites, r_planets, r_info))

ConnectFio ==
    \E fio_api_key \in SubmittedKeys :
    \E r_sites \in AuthResponses, r_planets \in AuthResponses, r_info \in AuthResponses :
        Finish("connect_fio", fio_api_key,
               connect_fio(db, fio_api_key, r_sites, r_planets, r_info))

\* get_current_user: the handler runs for a logged-in user
RefreshApiKey ==
    /\ db.exists
    /\ \E fio_api_key \in SubmittedKeys :
       \E r_sites \in AuthResponses, r_planets \in AuthResponses, r_info \in AuthResponses :
          Finish("refresh_api_key", fio_api_key,
                 refresh_api_key(db, fio_api_key, r_sites, r_planets, r_info))

(***************************************************************************)
(* The location resolver on its own: extract_storage_locations applied to  *)
(* storage records, sites, warehouses and CX station names.                *)
(***************************************************************************)
MaxStorages == 2

StorageRecords ==
    { Storage(addressable_id, storage_id, type, name, <<Item("FEO", 1)>>) :
        addressable_id \in {"A", "SITE-0123456789ABCDEF", NoneStr},
        storage_id \in {"sidB", "sidX"},
        type \in {"STORE", "WAREHOUSE_STORE"},
        name \in {NoneStr, "PROMITOR"} }

RECURSIVE SeqsUpTo(_, _)
SeqsUpTo(S, n) ==
    IF n = 0 THEN { <<>> }
    ELSE LET shorter == SeqsUpTo(S, n - 1)
         IN shorter \cup { Append(q, x) : q \in shorter, x \in S }

ResolverSites == { <<>>, << Site("A", NoneStr, "Katoa"), Site("A", "Promitor", NoneStr) >> }
ResolverWarehouses ==
    { << Warehouse("sidB", "Moria Station", NoneStr) >>,
      << Warehouse("sidB", NoneStr, "Katoa"), Warehouse("sidX", "Promitor", NoneStr) >> }
ResolverCxStations == { {}, {"Moria Station", "PROMITOR"} }

NoResolve ==
    [called |-> FALSE, storages |-> <<>>, sites |-> <<>>, warehouses |-> <<>>,
     cx_station_names |-> {}, result |-> <<>>]

\* the arguments of one call
InitResolver ==
    \E storages \in SeqsUpTo(StorageRecords, MaxStorages),
       sites \in ResolverSites,
       warehouses \in ResolverWarehouses,
       cx_station_names \in ResolverCxStations :
       loc = [called |-> FALSE, storages |-> storages, sites |-> sites,
              warehouses |-> warehouses, cx_station_names |-> cx_station_names,
              result |-> <<>>]

Resolve ==
    /\ ~loc.called
    /\ loc' = [loc EXCEPT
                 !.called = TRUE,
                 !.result = extract_storage_locations(loc.storages, loc.sites,
                                                      loc.warehouses, loc.cx_station_names)]
    /\ UNCHANGED <<now, syncVars, cacheVars, gw, auth, cx>>


(***************************************************************************)
(* The exchange price sync: cx_sync.py, its scheduled job in scheduler.py  *)
(* and the manual trigger admin.force_cx_sync.                             *)
(***************************************************************************)
Quote(ticker, exchange_code, ask, bid, average) ==
    [dict |-> TRUE, MaterialTicker |-> ticker, ExchangeCode |-> exchange_code,
     Ask |-> ask, Bid |-> bid, PriceAverage |-> average]

\* an element of the payload that is no JSON object: `item.get` raises AttributeError
NotADict ==
    [dict |-> FALSE, MaterialTicker |-> NoneStr, ExchangeCode |-> NoneStr,
     Ask |-> NULL, Bid |-> NULL, PriceAverage |-> NULL]

Exchange(material_ticker, exchange_code, price_ask, price_bid, price_average) ==
    [material_ticker |-> material_ticker, exchange_code |-> exchange_code,
     price_ask |-> price_ask, price_bid |-> price_bid, price_average |-> price_average]

\* market snapshots, each quoting a key once: two that differ in the ask of a
\* key they share (the later one also has an element without a ticker), and
\* one whose second element is broken
SnapshotEarly == << Quote("RAT", "NC1", 10, 9, 11), Quote("RAT", "IC1", 7, NULL, 6) >>
SnapshotLate == << Quote(NoneStr, "NC1", 1, 1, 1), Quote("RAT", "NC1", 12, 9, 11) >>
SnapshotBroken == << Quote("RAT", "NC1", 20, 19, 21), NotADict >>
Snapshots == {SnapshotEarly, SnapshotLate, SnapshotBroken}

\* what upstream does with GET /exchange/all: an httpx.HTTPError (no connection,
\* timeout, raise_for_status on 4xx/5xx), a 200 whose body is no JSON
\* (response.json() raises a ValueError), or a 200 with a JSON list
Answer(kind, body) == [kind |-> kind, body |-> body]
Upstreams ==
    { Answer("http_error", <<>>), Answer("bad_json", <<>>) }
        \cup { Answer("json", s) : s \in Snapshots }

fetch_all_exchange_data(answer) ==
    IF answer.kind = "http_error" THEN [kind |-> "return", value |-> <<>>]
    ELSE IF answer.kind = "bad_json" THEN [kind |-> "raise", value |-> <<>>]
    ELSE [kind |-> "return", value |-> answer.body]

\* `.filter(material_ticker == ticker, exchange_code == exchange_code).first()`
FirstMatch_ByTicker(rows, ticker, exchange_code) ==
    LET hits == { i \in 1..Len(rows) : rows[i].material_ticker = ticker }
    IN IF hits = {} THEN 0 ELSE CHOOSE i \in hits : \A j \in hits : i <= j

FirstMatch(rows, ticker, exchange_code) ==
    LET hits == { i \in 1..Len(rows) :
                    /\ rows[i].material_ticker = ticker
                    /\ rows[i].exchange_code = exchange_code }
    IN IF hits = {} THEN 0 ELSE CHOOSE i \in hits : \A j \in hits : i <= j

\* lines 66-94 on the rows of the session: update the existing row or add one
Upsert_KeepsOldPrices(rows, item) ==
    LET existing == FirstMatch(rows, item.MaterialTicker, item.ExchangeCode)
    IN IF existing # 0 THEN rows
       ELSE Append(rows, Exchange(item.MaterialTicker, item.ExchangeCode,
                                  item.Ask, item.Bid, item.PriceAverage))

Upsert(rows, item) ==
    LET existing == FirstMatch(rows, item.MaterialTicker, item.ExchangeCode)
    IN IF existing # 0
       THEN [rows EXCEPT ![existing] =
                [@ EXCEPT !.price_ask = item.Ask, !.price_bid = item.Bid,
                          !.price_average = item.PriceAverage]]
       ELSE Append(rows, Exchange(item.MaterialTicker, item.ExchangeCode,
                                  item.Ask, item.Bid, item.PriceAverage))

\* lines 59-94: the loop over the snapshot, up to the element that raises;
\* next is the session after the element at i
RECURSIVE UpsertLoop(_, _, _)
UpsertLoop(data, i, rows) ==
    IF i > Len(data) THEN [rows |-> rows, raised |-> FALSE]
    ELSE IF ~data[i].dict THEN [rows |-> rows, raised |-> TRUE]
    ELSE IF ~TruthyStr(data[i].MaterialTicker) \/ ~TruthyStr(data[i].ExchangeCode)
    THEN UpsertLoop(data, i + 1, rows)
    ELSE CHOOSE end \in { UpsertLoop(data, i + 1, next) : next \in {Upsert(rows, data[i])} } :
            TRUE

\* uix_exchange_material
UniqueKeys(rows) ==
    \A i, j \in 1..Len(rows) :
        (/\ rows[i].material_ticker = rows[j].material_ticker
         /\ rows[i].exchange_code = rows[j].exchange_code) => i = j

\* db.commit(): a database error or a violated constraint raises and leaves
\* the table as it was
Commit(table, rows, database_up) ==
    IF database_up /\ UniqueKeys(rows)
    THEN [ok |-> TRUE, table |-> rows]
    ELSE [ok |-> FALSE, table |-> table]

\* lines 59-101 of sync_exchange_prices, run on a fetched snapshot: the loop
\* (l is the session at its end), the commit, `except Exception: db.rollback()`
SyncBatch_CommitEachItem(table, data, database_up) ==
    CHOOSE b \in { IF l.raised
                   THEN [outcome |-> "failed", table |-> Commit(table, l.rows, database_up).table]
                   ELSE IF Commit(table, l.rows, database_up).ok
                   THEN [outcome |-> "ok", table |-> Commit(table, l.rows, database_up).table]
                   ELSE [outcome |-> "failed", table |-> table]
                   : l \in {UpsertLoop(data, 1, table)} } : TRUE

SyncBatch(table, data, database_up) ==
    CHOOSE b \in { IF l.raised THEN [outcome |-> "failed", table |-> table]
                   ELSE IF Commit(table, l.rows, database_up).ok
                   THEN [outcome |-> "ok", table |-> Commit(table, l.rows, database_up).table]
                   ELSE [outcome |-> "failed", table |-> table]
                   : l \in {UpsertLoop(data, 1, table)} } : TRUE

\* the run at process startup, the run of the interval job, the manual run
Runs == {"startup", "timer", "manual"}

\* crossed: another run has committed while this run was in flight; done: the
\* last run that ended, with its snapshot when it failed; committed: the last
\* commit, its snapshot, the table before it and the run whose commit crossed it
IdleRun == [pc |-> "idle", data |-> <<>>, session |-> "none", crossed |-> FALSE]
NoDone == [run |-> "-", outcome |-> "-", data |-> <<>>]
NoCommit == [run |-> "-", data |-> <<>>, before |-> <<>>, crossed |-> "-"]

\* `db = SessionLocal()` and the call of sync_exchange_prices, up to its await
StartRun(c, r) ==
    [c EXCEPT !.runs[r] = [IdleRun EXCEPT !.pc = "fetching", !.session = "open"]]

\* the run ends: `finally: db.close()`; done records how it ended
EndRun_FailureEscapes(c, r, outcome) ==
    [c EXCEPT !.runs[r] = IF outcome = "failed"
                          THEN [IdleRun EXCEPT !.pc = "crashed", !.session = "open"]
                          ELSE [IdleRun EXCEPT !.session = "closed"],
              !.done = [run |-> r, outcome |-> outcome,
                        data |-> IF outcome = "failed" THEN c.runs[r].data ELSE <<>>]]

EndRun(c, r, outcome) ==
    [c EXCEPT !.runs[r] = [IdleRun EXCEPT !.session = "closed"],
              !.done = [run |-> r, outcome |-> outcome,
                        data |-> IF outcome = "failed" THEN c.runs[r].data ELSE <<>>]]

\* start_scheduler: the interval job is added, the scheduler started and the
\* first run created as a task of its own
StartScheduler ==
    /\ ~cx.running
    /\ cx' = [StartRun(cx, "startup") EXCEPT !.running = TRUE]
    /\ UNCHANGED <<now, syncVars, cacheVars, gw, auth, loc>>

\* a tick of IntervalTrigger(minutes=30): the job, added with the default
\* max_instances of 1, is skipped while its previous instance is running
TimerTick ==
    /\ cx.running
    /\ cx' = IF cx.runs["timer"].pc = "idle" THEN StartRun(cx, "timer") ELSE cx
    /\ UNCHANGED <<now, syncVars, cacheVars, gw, auth, loc>>

\* force_cx_sync: a run on a session of its own
ManualTrigger ==
    /\ cx.runs["manual"].pc = "idle"
    /\ cx' = StartRun(cx, "manual")
    /\ UNCHANGED <<now, syncVars, cacheVars, gw, auth, loc>>

\* line 53: the await returns; an error other than httpx.HTTPError reaches the
\* except of sync_exchange_prices, an empty payload returns 0, 0
Fetch(r) ==
    /\ cx.runs[r].pc = "fetching"
    /\ LET res == fetch_all_exchange_data(cx.upstream)
       IN cx' = IF res.kind = "raise" THEN EndRun(cx, r, "failed")
                ELSE IF res.value = <<>> THEN EndRun(cx, r, "empty")
                ELSE [cx EXCEPT !.runs[r].pc = "fetched", !.runs[r].data = res.value]
    /\ UNCHANGED <<now, syncVars, cacheVars, gw, auth, loc>>

\* lines 59-103 and the caller's finally, with no await in between; a commit
\* is noted in committed and on the runs in flight
Process(r) ==
    /\ cx.runs[r].pc = "fetched"
    /\ \E b \in {SyncBatch(cx.table, cx.runs[r].data, cx.database_up)} :
          cx' = IF b.outcome # "ok" THEN [EndRun(cx, r, b.outcome) EXCEPT !.table = b.table]
                ELSE [EndRun(cx, r, b.outcome) EXCEPT
                        !.table = b.table,
                        !.committed = [run |-> r, data |-> cx.runs[r].data, before |-> cx.table,
                                       crossed |-> IF cx.runs[r].crossed
                                                   THEN cx.committed.run ELSE "-"],
                        !.runs = [q \in Runs |->
                                    IF q = r THEN [IdleRun EXCEPT !.session = "closed"]
                                    ELSE IF cx.runs[q].pc # "idle"
                                    THEN [cx.runs[q] EXCEPT !.crossed = TRUE]
                                    ELSE cx.runs[q]]]
    /\ UNCHANGED <<now, syncVars, cacheVars, gw, auth, loc>>

\* upstream publishes another snapshot, goes down or comes back
UpstreamChange ==
    /\ \E answer \in Upstreams \ {cx.upstream} : cx' = [cx EXCEPT !.upstream = answer]
    /\ UNCHANGED <<now, syncVars, cacheVars, gw, auth, loc>>

\* the database stops or resumes accepting commits
DatabaseChange ==
    /\ cx' = [cx EXCEPT !.database_up = ~@]
    /\ UNCHANGED <<now, syncVars, cacheVars, gw, auth, loc>>

\* no price sync in this process
NoPrices ==
    [table |-> <<>>, upstream |-> Answer("http_error", <<>>), database_up |-> TRUE,
     running |-> FALSE, runs |-> [r \in Runs |-> IdleRun], done |-> NoDone,
     committed |-> NoCommit]

InitialDbs ==
    [exists : {TRUE}, fio_username : {"Alice"},
     fio_api_key : {NoneStr, "key"}, fio_last_synced : {NULL, 0},
     listings : ListingTables, bundles : BundleTables]

\* the cache is empty at process start; no gateway call, no handler has run
InitCache ==
    /\ cache = EmptyDict
    /\ all_materials = NoEntry
    /\ last = NoOp
    /\ sets = 0

InitSync ==
    /\ now = 0
    /\ db \in InitialDbs
    /\ req = [r \in Requests |-> IdleReq(db)]
    /\ InitCache
    /\ gw = NoCall
    /\ auth = NoRun
    /\ cx = NoPrices
    /\ loc = NoResolve

NextSync ==
    \/ Tick
    \/ Call(1)
    \/ FetchStorage(1)
    \/ FetchSites(1)
    \/ FetchWarehouses(1)
    \/ Reconcile(1)
    \/ LogAudit(1)
    \/ RefreshRespond(1)
    \/ DashboardRender(1)

SpecSync == InitSync /\ [][NextSync]_vars

\* a database with one user's rows and an idle request
QuietDb ==
    [exists |-> TRUE, fio_username |-> "Alice", fio_api_key |-> "key",
     fio_last_synced |-> NULL,
     listings |-> << >>, bundles |-> << >>]

InitQuiet ==
    /\ now = 0
    /\ db = QuietDb
    /\ req = [r \in Requests |-> IdleReq(db)]
    /\ InitCache
    /\ gw = NoCall
    /\ auth = NoRun
    /\ cx = NoPrices
    /\ loc = NoResolve

NextCache ==
    \/ CacheTick
    \/ \E slot \in Slots, username \in Usernames, data \in Payloads :
          CacheSet(slot, username, data)
    \/ \E username \in Usernames : CacheGet(username)
    \/ \E data \in Payloads : CacheSetAllMaterials(data)
    \/ CacheGetAllMaterials
    \/ \E username \in Usernames : CacheSetLastRefresh(username)
    \/ \E username \in Usernames : CacheInvalidate(username)

SpecCache == InitQuiet /\ [][NextCache]_vars

SpecGateway == InitQuiet /\ [][GatewayCall]_vars

\* a user with a stored key, a user without one, or no user yet
InitAuth ==
    /\ now = 0
    /\ db \in { [QuietDb EXCEPT !.exists = e, !.fio_api_key = k] :
                   e \in BOOLEAN, k \in {NoneStr, "key"} }
    /\ db.exists \/ db.fio_api_key = NoneStr
    /\ req = [r \in Requests |-> IdleReq(db)]
    /\ InitCache
    /\ gw = NoCall
    /\ auth = NoRun
    /\ cx = NoPrices
    /\ loc = NoResolve

NextAuth ==
    \/ CheckUser
    \/ ConnectFio
    \/ RefreshApiKey

SpecAuth == InitAuth /\ [][NextAuth]_vars

InitResolve ==
    /\ now = 0
    /\ db = QuietDb
    /\ req = [r \in Requests |-> IdleReq(db)]
    /\ InitCache
    /\ gw = NoCall
    /\ auth = NoRun
    /\ cx = NoPrices
    /\ InitResolver

\* two requests of one user who has a key, well-formed rows and no sync so far
InitPair ==
    /\ InitSync
    /\ TruthyStr(db.fio_api_key)
    /\ db.fio_last_synced = NULL
    /\ \A i \in 1..Len(db.listings) : db.listings[i].reserve_quantity # BAD
    /\ \A i \in 1..Len(db.bundles) :
          \A k \in 1..Len(db.bundles[i].items) : db.bundles[i].items[k].quantity \notin {0, BAD}

\* a call that passes the gate because no sync of the user has committed yet:
\* the calls whose syncs run side by side
PairCall(r) ==
    /\ db.fio_last_synced = NULL
    /\ Call(r)

NextPair ==
    \E r \in Requests :
        \/ PairCall(r)
        \/ FetchStorage(r)
        \/ FetchSites(r)
        \/ FetchWarehouses(r)
        \/ Reconcile(r)
        \/ LogAudit(r)
        \/ RefreshRespond(r)
        \/ DashboardRender(r)

SpecSyncPair == InitPair /\ [][NextPair]_vars

SpecResolver == InitResolve /\ [][Resolve]_vars

\* process start: an empty exchange table, the scheduler not started yet
InitPrices ==
    /\ now = 0
    /\ db = QuietDb
    /\ req = [r \in Requests |-> IdleReq(db)]
    /\ InitCache
    /\ gw = NoCall
    /\ auth = NoRun
    /\ loc = NoResolve
    /\ \E answer \in Upstreams : cx = [NoPrices EXCEPT !.upstream = answer]

\* the job and the manual trigger side by side, on a database that accepts
\* every commit
NextPrices ==
    \/ StartScheduler
    \/ TimerTick
    \/ ManualTrigger
    \/ \E r \in Runs : Fetch(r)
    \/ \E r \in Runs : Process(r)
    \/ UpstreamChange

SpecPrices == InitPrices /\ [][NextPrices]_vars

\* the scheduled job alone: the run created at startup and the interval runs
JobRuns == {"startup", "timer"}

NextJob ==
    \/ StartScheduler
    \/ TimerTick
    \/ \E r \in JobRuns : Fetch(r)
    \/ \E r \in JobRuns : Process(r)
    \/ UpstreamChange
    \/ DatabaseChange

\* the lifespan starts the scheduler, the interval trigger keeps firing, the
\* await of a run returns (the client's timeout bounds it) and the event loop
\* resumes the task
FairJob ==
    /\ WF_vars(StartScheduler)
    /\ WF_vars(TimerTick)
    /\ \A r \in JobRuns : WF_vars(Fetch(r)) /\ WF_vars(Process(r))

SpecJob == InitPrices /\ [][NextJob]_vars

SpecPricesFair == SpecJob /\ FairJob

(***************************************************************************)
(* Claims about the sync.                                                  *)
(***************************************************************************)
\* a sync that went through to its commit and has just returned True
SyncedOk(rq) == rq.pc = "returned" /\ rq.result = "True" /\ rq.calls > 0

\* the stock of a ticker in a storage of the snapshot, a missing ticker counting 0
StockOf(inventory, storage_id, ticker) ==
    IF ticker \in DOMAIN inventory[storage_id] THEN inventory[storage_id][ticker] ELSE 0

InSnapshot(storage_id, inventory) ==
    storage_id # NoneStr /\ storage_id # "" /\ storage_id \in DOMAIN inventory

\* C1: after a successful sync every listing bound to a storage of the snapshot
\* has available_quantity = max(0, stock - reserve), a missing ticker counting
\* as stock 0 and a null reserve as 0; every other listing keeps the
\* available_quantity it had before the sync.
C1_ListingsReconciled ==
    \A r \in Requests : SyncedOk(req[r]) =>
        \A i \in 1..Len(db.listings) :
            LET listing == db.listings[i]
                stock == StockOf(req[r].inv, listing.storage_id, listing.material_ticker)
                reserve == IF listing.reserve_quantity = NULL THEN 0
                           ELSE listing.reserve_quantity
            IN IF InSnapshot(listing.storage_id, req[r].inv)
               THEN listing.available_quantity = (IF stock - reserve > 0 THEN stock - reserve ELSE 0)
               ELSE listing.available_quantity = req[r].db0.listings[i].available_quantity

\* a sync has returned True with storage A in the snapshot and B absent: the
\* listing with a null reserve holds the stock, the one whose reserve exceeds
\* the stock holds 0, the unbound one and the one bound to B hold their old 9
C1_Witness ==
    \E r \in Requests :
        /\ SyncedOk(req[r])
        /\ "A" \in DOMAIN req[r].inv /\ "B" \notin DOMAIN req[r].inv
        /\ db.listings[2].available_quantity = 5
        /\ db.listings[3].available_quantity = 0
        /\ req[r].db0.listings[3].available_quantity = 9
        /\ db.listings[1].available_quantity = 9
        /\ db.listings[4].available_quantity = 9

\* floor(stock / quantity) of every line item of a bundle
FloorsOf(bundle, inventory) ==
    { StockOf(inventory, bundle.storage_id, bundle.items[k].material_ticker)
          \div bundle.items[k].quantity : k \in 1..Len(bundle.items) }

C3_FailedSyncLeavesRowsUntouched ==
    \A r \in Requests :
        (req[r].pc \in {"returned", "audited"} /\ req[r].calls > 0 /\ req[r].result # "True")
        => /\ req[r].result = "False"
           /\ db = req[r].db0

\* the age, at the call, of the user's last sync, and whether the gate lets
\* the call through
FreshAtCall(rq) ==
    /\ rq.db0.fio_last_synced # NULL
    /\ rq.t0 - rq.db0.fio_last_synced <= 600
GateOpen(rq) == rq.force \/ ~FreshAtCall(rq)
HasKey(rq) == rq.db0.fio_api_key # NoneStr /\ rq.db0.fio_api_key # ""
FetchReached(rq) == rq.client # "none" /\ (rq.pc = "fetch_storage" \/ rq.calls > 0)

\* C4 (as claimed): an unforced call at most 600 s after the last sync returns
\* True with no upstream call and no change of persisted data; every forced
\* call and every call of a never-synced or stale user proceeds to the fetch step.
C4_EveryNeededCallFetches ==
    \A r \in Requests : req[r].pc # "idle" =>
        /\ ~GateOpen(req[r]) =>
              /\ req[r].pc = "returned" /\ req[r].result = "True"
              /\ req[r].calls = 0 /\ req[r].client = "none"
              /\ db = req[r].db0
        /\ GateOpen(req[r]) => FetchReached(req[r])

\* C4 (amended): as claimed, the call that passes the gate proceeding to the
\* fetch step when the user has a stored API key.
C4_StalenessGate ==
    \A r \in Requests : req[r].pc # "idle" =>
        /\ ~GateOpen(req[r]) =>
              /\ req[r].pc = "returned" /\ req[r].result = "True"
              /\ req[r].calls = 0 /\ req[r].client = "none"
              /\ db = req[r].db0
        /\ (GateOpen(req[r]) /\ HasKey(req[r])) => FetchReached(req[r])

\* an unforced call exactly 600 s after the last sync has returned True
C4_WitnessFresh ==
    \E r \in Requests :
        /\ req[r].pc = "returned" /\ ~req[r].force
        /\ req[r].db0.fio_last_synced # NULL
        /\ req[r].t0 - req[r].db0.fio_last_synced = 600
        /\ req[r].result = "True" /\ req[r].calls = 0

\* C5: a call that passes the gate for a user with no stored API key returns
\* False without creating a client, without an upstream call and without
\* changing persisted data.
C5_NoKeyNoSync ==
    \A r \in Requests :
        (req[r].pc # "idle" /\ GateOpen(req[r]) /\ ~HasKey(req[r]))
        => /\ req[r].pc \in {"returned", "audited"}
           /\ req[r].result = "False"
           /\ req[r].client = "none"
           /\ req[r].calls = 0
           /\ db = req[r].db0

\* a forced refresh of a user without a key has returned False
C5_Witness ==
    \E r \in Requests :
        /\ req[r].pc = "returned" /\ req[r].force
        /\ req[r].db0.fio_api_key = NoneStr
        /\ req[r].result = "False" /\ req[r].calls = 0

(***************************************************************************)
(* Claims about the cache.                                                 *)
(***************************************************************************)
\* the entry the cache holds for a slot of a user, under any casing of the name
EntryOf(slot, username) ==
    IF LowerOf(username) \in DOMAIN cache THEN cache[LowerOf(username)][slot] ELSE NoEntry

SameUser(u, v) == LowerOf(u) = LowerOf(v)

\* what a get may return of an entry at the current time
FreshData(entry) ==
    IF entry # NoEntry /\ now < entry.expires_at THEN entry.data ELSE NULL

\* C6: for every per-user slot and for all_materials, a get returns the payload
\* of the slot's entry only while the current time is before the entry's expiry
\* instant; with the expiry instant at or before the current time, and with no
\* entry, it returns None.
C6_GetNeverReturnsExpired ==
    /\ \A slot \in Slots, username \in Usernames :
          get_slot(cache, slot, username) = FreshData(EntryOf(slot, username))
    /\ get_all_materials(all_materials) = FreshData(all_materials)

\* a slot holds an entry whose expiry instant is exactly now, all_materials holds
\* one still fresh: the get of the first returns None, of the second its payload
C6_Witness ==
    /\ \E slot \in Slots, username \in Usernames :
          /\ EntryOf(slot, username) # NoEntry
          /\ EntryOf(slot, username).expires_at = now
          /\ get_slot(cache, slot, username) = NULL
    /\ all_materials # NoEntry
    /\ all_materials.expires_at > now
    /\ get_all_materials(all_materials) = all_materials.data

\* C7: after a set of a slot, the slot's entry is the payload just set with
\* expiry = time of that set + TTL, whatever the slot held before, and a get
\* with no time elapsed (and any get before that expiry) returns that payload.
C7_SetThenGet ==
    /\ (last.op = "set" /\ last.slot \in Slots) =>
          /\ EntryOf(last.slot, last.user) =
                [data |-> last.data, expires_at |-> last.at + DEFAULT_TTL_SECONDS]
          /\ now = last.at => get_slot(cache, last.slot, last.user) = last.data
          /\ now < last.at + DEFAULT_TTL_SECONDS =>
                \A v \in Usernames :
                    SameUser(v, last.user) => get_slot(cache, last.slot, v) = last.data
    /\ (last.op = "set" /\ last.slot = "all_materials") =>
          /\ all_materials = [data |-> last.data, expires_at |-> last.at + DEFAULT_TTL_SECONDS]
          /\ now < last.at + DEFAULT_TTL_SECONDS =>
                get_all_materials(all_materials) = last.data

\* a slot set at time 0 was set again half a TTL later: at the instant the first
\* entry would have expired the get returns the second payload
C7_Witness ==
    /\ last.op = "set" /\ last.slot \in Slots /\ last.had
    /\ last.at = HalfTtl /\ last.data = 2
    /\ now = DEFAULT_TTL_SECONDS
    /\ get_slot(cache, last.slot, last.user) = 2
    /\ EntryOf(last.slot, last.user).expires_at = HalfTtl + DEFAULT_TTL_SECONDS

\* C8: after invalidate_user(u) every per-user slot of u and u's last_refresh
\* read as None under every casing of u's name; the call leaves the bucket of
\* every other user and the all_materials entry as they were.
C8_InvalidateUser ==
    [][ last'.op = "invalidate" =>
          /\ \A v \in Usernames : SameUser(v, last'.user) =>
                /\ \A slot \in Slots : get_slot(cache', slot, v) = NULL
                /\ get_last_refresh(cache', v) = NULL
          /\ \A k \in DOMAIN cache :
                k # LowerOf(last'.user) => k \in DOMAIN cache' /\ cache'[k] = cache[k]
          /\ all_materials' = all_materials ]_vars

\* a user whose bucket held something was invalidated under a casing of the
\* name other than the key's, while another user's slot stays readable
C8_Witness ==
    /\ last.op = "invalidate" /\ last.had
    /\ last.user # LowerOf(last.user)
    /\ LowerOf(last.user) \notin DOMAIN cache
    /\ \E slot \in Slots, v \in Usernames :
          ~SameUser(v, last.user) /\ get_slot(cache, slot, v) # NULL

(***************************************************************************)
(* Claims about the gateway and the credential handlers.                   *)
(***************************************************************************)
Called == gw.endpoint # "-" /\ gw.resp.net = "ok"

StatusContract ==
    /\ gw.resp.status = 204 =>
          gw.out = (IF gw.endpoint \in ListEndpoints THEN Return(JsonEmptyList) ELSE ReturnNone)
    /\ gw.resp.status = 401 => gw.out.kind = "raise" /\ IsFIOAuthError(gw.out.exc)
    /\ gw.resp.status \notin {200, 204, 401} =>
          gw.out.kind = "raise" /\ IsFIOError(gw.out.exc) /\ ~IsFIOAuthError(gw.out.exc)

\* C9 (as claimed): for every endpoint, status 200 yields the parsed payload,
\* 204 yields None (an empty list for the list endpoints) and no error, 401
\* raises FIOAuthError, any other status raises an FIOError that is no
\* FIOAuthError.
C9_StatusMapping ==
    Called => /\ gw.resp.status = 200 => gw.out = Return(gw.resp.body)
              /\ StatusContract

\* C9 (amended): as claimed, except that on status 200 a list endpoint yields
\* the empty list in place of a payload that is null, false, {} or [].
C9_StatusMappingListsDefault ==
    Called => /\ gw.resp.status = 200 =>
                    gw.out = (IF /\ gw.endpoint \in ListEndpoints
                                 /\ gw.resp.body.json \in {"null", "false", "{}", "[]"}
                              THEN Return(JsonEmptyList)
                              ELSE Return(gw.resp.body))
              /\ StatusContract

\* a list endpoint answered 200 with JSON null has returned the empty list
C9_Witness ==
    /\ gw.endpoint = "get_user_storage"
    /\ gw.resp.net = "ok" /\ gw.resp.status = 200 /\ gw.resp.body = JsonNull
    /\ gw.out = Return(JsonEmptyList)

\* C10: when check_user, refresh_api_key or connect_fio ends on a verification
\* failure that is no authentication failure (the transport raising, an upstream
\* status other than 200, 204 and 401), the stored fio_api_key, and whether the
\* user has a row, are what they were before the request.
C10_TransientFailureKeepsKey ==
    (auth.handler # "-" /\ auth.exc \in {"FIOError", "TimeoutException"})
        => /\ db.fio_api_key = auth.key0
           /\ db.exists = auth.exists0

\* refresh_api_key ended on a timeout for a user with a stored key: the
\* submitted key was turned down and the stored one is still there
C10_Witness ==
    /\ auth.handler = "refresh_api_key" /\ auth.exc = "TimeoutException"
    /\ auth.outcome = "error_400"
    /\ auth.key0 = "key" /\ auth.submitted = "key2"
    /\ db.fio_api_key = "key"

\* C11 (as claimed): check_user prompts for a new API key on a stored
\* credential only when verification ended on an authentication failure; a
\* transient failure (the transport raising, an upstream status other than
\* 200, 204 and 401) does not give the outcome a rejected credential gives.
C11_OnlyRejectionPrompts ==
    (/\ auth.handler = "check_user"
     /\ auth.exists0 /\ TruthyStr(auth.key0)
     /\ auth.outcome = "prompt_api_key")
        => IsFIOAuthError(auth.exc)

(***************************************************************************)
(* Claims about the location resolver.                                     *)
(***************************************************************************)
\* the name a warehouse or a site row gives, NoneStr when it gives none
LocationNameOf(wh) ==
    IF TruthyStr(wh.LocationName) THEN wh.LocationName ELSE wh.LocationNaturalId
PlanetNameOf(site) ==
    IF TruthyStr(site.PlanetName) THEN site.PlanetName ELSE site.PlanetIdentifier

\* the rows of the warehouse map and of the site map under an id
WarehouseRows(storage_id) ==
    { k \in 1..Len(loc.warehouses) :
        /\ TruthyStr(storage_id) /\ loc.warehouses[k].StoreId = storage_id
        /\ TruthyStr(LocationNameOf(loc.warehouses[k])) }
SiteRows(addressable_id) ==
    { k \in 1..Len(loc.sites) :
        /\ TruthyStr(addressable_id) /\ loc.sites[k].SiteId = addressable_id
        /\ TruthyStr(PlanetNameOf(loc.sites[k])) }

\* a later row of a map replaces an earlier one under the same id
LastOf(rows) == CHOOSE k \in rows : \A j \in rows : j <= k

\* the name the four rules give a storage record
ExpectedName(storage) ==
    IF TruthyStr(storage.Name) THEN storage.Name
    ELSE IF storage.Type = "WAREHOUSE_STORE" /\ WarehouseRows(storage.StorageId) # {}
    THEN LocationNameOf(loc.warehouses[LastOf(WarehouseRows(storage.StorageId))])
    ELSE IF storage.Type = "STORE" /\ SiteRows(storage.AddressableId) # {}
    THEN PlanetNameOf(loc.sites[LastOf(SiteRows(storage.AddressableId))])
    ELSE IF TruthyStr(storage.AddressableId) THEN Trunc12(storage.AddressableId)
    ELSE "Unknown"

\* the result holds one entry per storage record, each entry carrying its
\* record's AddressableId and Type and a name that Named allows for the record
OneEntryEach(Named(_, _)) ==
    /\ Len(loc.result) = Len(loc.storages)
    /\ \E p \in Permutations(1..Len(loc.storages)) :
          \A i \in 1..Len(loc.storages) :
              /\ loc.result[p[i]].addressable_id = OrEmptyStr(loc.storages[i].AddressableId)
              /\ loc.result[p[i]].type = loc.storages[i].Type
              /\ Named(loc.storages[i], loc.result[p[i]].name)

NamedByRules(storage, name) == name = ExpectedName(storage)

\* C18: every storage record is named by the first rule that applies: its
\* explicit Name; else, a WAREHOUSE_STORE whose StorageId is in the warehouse
\* map, that location name; else, a STORE whose AddressableId is in the site
\* map, that planet name; else the first 12 characters of the AddressableId,
\* or "Unknown" without one.
C18_NamedByFirstRule == loc.called => OneEntryEach(NamedByRules)

\* a warehouse record in the warehouse map that carries an explicit Name is named
\* by its Name, next to a base store without AddressableId named "Unknown"
C18_Witness ==
    /\ loc.called /\ Len(loc.storages) = 2
    /\ loc.storages[1].Type = "WAREHOUSE_STORE" /\ loc.storages[1].StorageId = "sidB"
    /\ loc.storages[1].Name = "PROMITOR"
    /\ WarehouseRows("sidB") # {}
    /\ loc.storages[2].Type = "STORE" /\ loc.storages[2].AddressableId = NoneStr
    /\ loc.storages[2].Name = NoneStr
    /\ \E i, j \in 1..2 : loc.result[i].name = "PROMITOR" /\ loc.result[j].name = "Unknown"

InWarehouseMap(storage) ==
    storage.Type = "WAREHOUSE_STORE" /\ WarehouseRows(storage.StorageId) # {}

NamedByWarehouse(storage, name) ==
    InWarehouseMap(storage) =>
        name = LocationNameOf(loc.warehouses[LastOf(WarehouseRows(storage.StorageId))])

NamedByWarehouseUnlessNamed(storage, name) ==
    (InWarehouseMap(storage) /\ ~TruthyStr(storage.Name)) =>
        name = LocationNameOf(loc.warehouses[LastOf(WarehouseRows(storage.StorageId))])

\* C19 (as claimed): every WAREHOUSE_STORE record whose StorageId is in the
\* warehouse map is named by that warehouse's location name.
C19_WarehouseNamedByMap == loc.called => OneEntryEach(NamedByWarehouse)

\* C19 (amended): every WAREHOUSE_STORE record whose StorageId is in the
\* warehouse map and that carries no explicit Name is named by that
\* warehouse's location name.
C19_UnnamedWarehouseNamedByMap == loc.called => OneEntryEach(NamedByWarehouseUnlessNamed)

\* a lone warehouse record without a Name, its StorageId in the warehouse map,
\* came out named by the map
C19_Witness ==
    /\ loc.called /\ Len(loc.storages) = 1
    /\ loc.storages[1].Type = "WAREHOUSE_STORE" /\ loc.storages[1].StorageId = "sidB"
    /\ loc.storages[1].Name = NoneStr /\ loc.storages[1].AddressableId = "A"
    /\ loc.result[1].name = "Moria Station"

AnyName(storage, name) == TRUE

\* a sits rightly before b in the result
InOrder(a, b) ==
    /\ a.is_cx \/ ~b.is_cx
    /\ a.is_cx = b.is_cx => ~StrLess(LowerOf(b.name), LowerOf(a.name))
    /\ (a.is_cx = b.is_cx /\ LowerOf(a.name) = LowerOf(b.name))
          => ~(a.type = "WAREHOUSE_STORE" /\ b.type = "STORE")

\* C20: the result has one entry per storage record; every CX-flagged entry
\* precedes every entry not flagged; under the same flag names ascend without
\* regard to case; under the same flag and name STORE precedes WAREHOUSE_STORE.
C20_ResultOrdered ==
    loc.called =>
        /\ OneEntryEach(AnyName)
        /\ \A i, j \in 1..Len(loc.result) : i < j => InOrder(loc.result[i], loc.result[j])

\* a warehouse record given before a base store of the same name, in another
\* casing, came out after it
C20_Witness ==
    /\ loc.called /\ Len(loc.storages) = 2
    /\ loc.storages[1].Type = "WAREHOUSE_STORE" /\ loc.storages[2].Type = "STORE"
    /\ loc.result[1].type = "STORE" /\ loc.result[1].name = "PROMITOR"
    /\ loc.result[2].type = "WAREHOUSE_STORE" /\ loc.result[2].name = "Promitor"
    /\ loc.result[1].is_cx = loc.result[2].is_cx

(***************************************************************************)
(* Claims about concurrent syncs.                                          *)
(***************************************************************************)
\* the rows on file are the ones a reconciliation from this inventory leaves
ReconciledFrom(inventory) ==
    /\ \A i \in 1..Len(db.listings) :
          LET listing == db.listings[i]
              stock == StockOf(inventory, listing.storage_id, listing.material_ticker)
              reserve == IF listing.reserve_quantity = NULL THEN 0
                         ELSE listing.reserve_quantity
          IN InSnapshot(listing.storage_id, inventory) =>
                listing.available_quantity = (IF stock - reserve > 0 THEN stock - reserve ELSE 0)
    /\ \A i \in 1..Len(db.bundles) :
          LET bundle == db.bundles[i]
          IN (/\ bundle.stock_mode = "FIO_SYNC"
              /\ InSnapshot(bundle.storage_id, inventory)
              /\ bundle.items # <<>>
              /\ \A k \in 1..Len(bundle.items) : bundle.items[k].quantity > 0)
             => /\ bundle.available_quantity \in FloorsOf(bundle, inventory)
                /\ \A f \in FloorsOf(bundle, inventory) : bundle.available_quantity <= f

\* C17 (as claimed): when two concurrent syncs of the user have both fetched
\* and committed, the persisted available quantities are those computed from
\* the inventory snapshot fetched last, whichever of the two committed last.
C17_LastCommitIsFreshest ==
    \A r, q \in Requests :
        (r # q /\ SyncedOk(req[r]) /\ SyncedOk(req[q]) /\ req[q].newest)
            => ReconciledFrom(req[q].inv)

(***************************************************************************)
(* Claims about the exchange price sync.                                   *)
(***************************************************************************)
RowsOf(table, ticker, exchange_code) ==
    { i \in 1..Len(table) : /\ table[i].material_ticker = ticker
                            /\ table[i].exchange_code = exchange_code }

\* the quotes of a snapshot that carry a ticker and an exchange code
Keyed(data) ==
    { i \in 1..Len(data) : /\ data[i].dict
                           /\ TruthyStr(data[i].MaterialTicker)
                           /\ TruthyStr(data[i].ExchangeCode) }

HoldsQuote(table, item) ==
    \E i \in 1..Len(table) :
        /\ RowsOf(table, item.MaterialTicker, item.ExchangeCode) = {i}
        /\ table[i].price_ask = item.Ask
        /\ table[i].price_bid = item.Bid
        /\ table[i].price_average = item.PriceAverage

HoldsSnapshot(table, data) == \A i \in Keyed(data) : HoldsQuote(table, data[i])

OneRowPerKey(table) ==
    \A i \in 1..Len(table) :
        RowsOf(table, table[i].material_ticker, table[i].exchange_code) = {i}

\* C12: the exchange table never holds two rows of one (ticker, exchange
\* code), and when a run has just ended successfully every keyed quote of its
\* snapshot is in the table with that snapshot's ask, bid and average.
C12_UpsertedPerKey ==
    /\ OneRowPerKey(cx.table)
    /\ cx.done.outcome = "ok" => HoldsSnapshot(cx.table, cx.committed.data)

\* the later snapshot synced over the earlier one: RAT.NC1 once, asking 12
C12_Witness ==
    /\ cx.done.outcome = "ok"
    /\ cx.committed.data = SnapshotLate
    /\ Len(cx.table) = 2
    /\ \E i \in 1..2 : /\ cx.table[i].material_ticker = "RAT"
                        /\ cx.table[i].exchange_code = "NC1"
                        /\ cx.table[i].price_ask = 12

\* the step in which run r ends
Ends(r) == cx.runs[r].pc # "idle" /\ cx'.runs[r].pc = "idle" /\ cx'.done.run = r

\* C13: a price-sync run that fails changes no row of the exchange table,
\* however much of its snapshot it had processed: the table after the failing
\* step is the table before it.
C13_FailedRunWritesNothing ==
    [][\A r \in Runs : (Ends(r) /\ cx'.done.outcome = "failed") => cx'.table = cx.table]_vars

\* a run has failed on the broken second element of its snapshot, after the
\* first element had matched a row on file
C13_Witness ==
    /\ cx.done.outcome = "failed"
    /\ cx.done.data = SnapshotBroken
    /\ RowsOf(cx.table, "RAT", "NC1") # {}
    /\ cx.database_up

\* snapshots upstream answers with successfully
GoodSnapshots == {SnapshotEarly, SnapshotLate}

\* C14: a run of the job holds its session open exactly while it is in flight,
\* whatever way it ends; the scheduler, once started, stays started; a failed
\* run is followed by a new run of the interval job; and once upstream keeps
\* answering with a snapshot while the database accepts commits, the exchange
\* table holds that snapshot again and again.
C14_FailuresContained ==
    /\ [](\A r \in JobRuns :
            cx.runs[r].session = "open" <=> cx.runs[r].pc \in {"fetching", "fetched"})
    /\ [](\A r \in JobRuns : cx.runs[r].pc \in {"idle", "fetching", "fetched"})
    /\ [][cx.running => cx'.running]_vars
    /\ (cx.done.outcome = "failed") ~> (cx.runs["timer"].pc = "fetching")
    /\ \A s \in GoodSnapshots :
          <>[](cx.upstream = Answer("json", s) /\ cx.database_up)
              => []<>HoldsSnapshot(cx.table, s)

\* an interval run has failed, its session is closed, the scheduler runs on
\* and the next tick has started a new run
C14_Witness ==
    /\ cx.done.run = "timer"
    /\ cx.done.outcome = "failed"
    /\ cx.running
    /\ cx.runs["timer"].pc = "fetching"
    /\ cx.runs["timer"].session = "open"

InFlight(r) == cx.runs[r].pc # "idle"

\* C15: no run of the interval job is in flight while another run of the job,
\* started by the scheduler or at process startup, is in flight.
C15_JobNeverOverlapsItself ==
    ~(InFlight("timer") /\ InFlight("startup"))

\* the table that running first one snapshot and then the other leaves
OneAfterTheOther(table, first, second) ==
    SyncBatch(SyncBatch(table, first, TRUE).table, second, TRUE).table

QuotesKey(data, item) ==
    \E i \in Keyed(data) : /\ data[i].MaterialTicker = item.MaterialTicker
                            /\ data[i].ExchangeCode = item.ExchangeCode

\* the step in which run r commits after run q has committed during r's flight
OverlapCommit(r, q) ==
    /\ Ends(r)
    /\ cx'.done.outcome = "ok"
    /\ cx.runs[r].crossed
    /\ cx.committed.run = q

ManualAndTimer == { <<"manual", "timer">>, <<"timer", "manual">> }

\* a run fails only on its own snapshot or on the database
FailsOnItsOwn(r) ==
    (Ends(r) /\ cx'.done.outcome = "failed")
        => \/ ~cx.database_up
           \/ cx.runs[r].data = <<>>
           \/ \E i \in 1..Len(cx.runs[r].data) : ~cx.runs[r].data[i].dict

\* C16 as stated: when a manual run and an interval run overlap, neither fails
\* because of the other, the table keeps one row per key, and the table after
\* the second commit is the one that running the two one after the other
\* gives, in either order.
C16_EitherOrder ==
    [][\A p \in ManualAndTimer :
          /\ FailsOnItsOwn(p[1])
          /\ OverlapCommit(p[1], p[2]) =>
                /\ OneRowPerKey(cx'.table)
                /\ cx'.table = OneAfterTheOther(cx.committed.before, cx.committed.data,
                                                cx.runs[p[1]].data)
                /\ cx'.table = OneAfterTheOther(cx.committed.before, cx.runs[p[1]].data,
                                                cx.committed.data)]_vars

\* C16, amended: when a manual run and an interval run overlap, neither fails
\* because of the other, the table keeps one row per key, and the table after
\* the second commit is the one that running the two one after the other in
\* the order of their commits gives: it holds the snapshot of the run that
\* committed last and, for the keys only the other run quoted, the other's.
C16_CommitOrder ==
    [][\A p \in ManualAndTimer :
          /\ FailsOnItsOwn(p[1])
          /\ OverlapCommit(p[1], p[2]) =>
                /\ OneRowPerKey(cx'.table)
                /\ cx'.table = OneAfterTheOther(cx.committed.before, cx.committed.data,
                                                cx.runs[p[1]].data)
                /\ HoldsSnapshot(cx'.table, cx.runs[p[1]].data)
                /\ \A i \in Keyed(cx.committed.data) :
                      ~QuotesKey(cx.runs[p[1]].data, cx.committed.data[i])
                          => HoldsQuote(cx'.table, cx.committed.data[i])]_vars

\* the manual run fetched the early snapshot, the interval run fetched the
\* late one and committed, then the manual run committed: RAT.NC1 asks 10
\* where it asked 12
C16_Witness ==
    /\ cx.done.run = "manual"
    /\ cx.done.outcome = "ok"
    /\ cx.committed.run = "manual"
    /\ cx.committed.crossed = "timer"
    /\ cx.committed.data = SnapshotEarly
    /\ \E i \in 1..Len(cx.committed.before) :
          /\ cx.committed.before[i].material_ticker = "RAT"
          /\ cx.committed.before[i].exchange_code = "NC1"
          /\ cx.committed.before[i].price_ask = 12
    /\ HoldsSnapshot(cx.table, SnapshotEarly)

(***************************************************************************)
(* The pricing calculator: utils.format_price and                          *)
(* utils.calculate_cx_actual_price, fed by cx_sync.get_cx_prices_bulk.     *)
(* Amounts are whole units; a computed price is kept exact, in hundredths  *)
(* of a unit, until it is rendered.                                        *)
(***************************************************************************)
Hundredths == 100

PricedListing(price_type, price_value, price_cx_is_absolute, price_exchange, material_ticker) ==
    [price_type |-> price_type, price_value |-> price_value,
     price_cx_is_absolute |-> price_cx_is_absolute,
     price_exchange |-> price_exchange, material_ticker |-> material_ticker]

\* { (e.material_ticker, e.exchange_code): e.price_ask for e in exchanges
\*   if e.price_ask is not None }; a later row of a key replaces an earlier one
get_cx_prices_bulk(exchanges) ==
    LET asked == { i \in 1..Len(exchanges) : exchanges[i].price_ask # NULL }
        keys == { <<exchanges[i].material_ticker, exchanges[i].exchange_code>> : i \in asked }
        lastOf(k) == CHOOSE i \in asked :
                        /\ <<exchanges[i].material_ticker, exchanges[i].exchange_code>> = k
                        /\ \A j \in asked :
                              <<exchanges[j].material_ticker, exchanges[j].exchange_code>> = k
                                  => j <= i
    IN [k \in keys |-> exchanges[lastOf(k)].price_ask]

\* cx_ask + offset, or cx_ask * (1 + offset / 100), in hundredths
calculate_cx_actual_price_OffsetAlwaysUnits(cx_ask, offset, is_absolute) ==
    (cx_ask + offset) * Hundredths

calculate_cx_actual_price(cx_ask, offset, is_absolute) ==
    IF is_absolute THEN (cx_ask + offset) * Hundredths
    ELSE cx_ask * (Hundredths + offset)

\* f"{x:,.0f}": the nearest whole number, a tie going to the even one
Format0f(hundredths) ==
    LET whole == hundredths \div Hundredths
        rest == hundredths % Hundredths
    IN IF 2 * rest < Hundredths THEN whole
       ELSE IF 2 * rest > Hundredths THEN whole + 1
       ELSE IF whole % 2 = 0 THEN whole ELSE whole + 1

\* the rendered text, by its parts: "Contact me", "CX price", "<amount>/u", or
\* "CX[.exchange]<sign><offset>[%]" followed by " (<figure>/u)" when figure is set
Rendered(form, exchange, offset, percent, figure) ==
    [form |-> form, exchange |-> exchange, offset |-> offset, percent |-> percent,
     figure |-> figure]

ContactMe == Rendered("Contact me", NoneStr, NULL, FALSE, NULL)

CxDictGet(cx_prices, key) == IF key \in DOMAIN cx_prices THEN cx_prices[key] ELSE NULL

format_price(listing, cx_prices) ==
    IF listing.price_type = "absolute"
    THEN IF listing.price_value \notin {NULL, 0}
         THEN Rendered("amount", NoneStr, NULL, FALSE, listing.price_value)
         ELSE ContactMe
    ELSE IF listing.price_type = "cx_relative"
    THEN IF listing.price_value = NULL
         THEN Rendered("CX price", NoneStr, NULL, FALSE, NULL)
         ELSE LET exchange == IF TruthyStr(listing.price_exchange)
                              THEN listing.price_exchange ELSE NoneStr
                  base_str == Rendered("CX", exchange, listing.price_value,
                                       ~listing.price_cx_is_absolute, NULL)
                  cx_ask == CxDictGet(cx_prices,
                                      <<listing.material_ticker, listing.price_exchange>>)
              IN IF /\ DOMAIN cx_prices # {}
                    /\ TruthyStr(listing.price_exchange)
                    /\ TruthyStr(listing.material_ticker)
                    /\ cx_ask \notin {NULL, 0}
                 THEN [base_str EXCEPT !.figure =
                          Format0f(calculate_cx_actual_price(
                                       cx_ask, listing.price_value,
                                       listing.price_cx_is_absolute))]
                 ELSE base_str
    ELSE ContactMe

\* the listings and the exchange tables the calculator is run on
PriceTypes == {"absolute", "cx_relative", "contact_me"}
PriceValues == {NULL, 0 - 10, 0, 5}
PricedListings ==
    { PricedListing(t, v, a, e, "RAT") :
        t \in PriceTypes, v \in PriceValues, a \in BOOLEAN, e \in {NoneStr, "NC1"} }
Asks == {NULL, 0, 50, 100}
PriceTables ==
    { <<>>, << Exchange("RAT", "IC1", 7, 6, 6) >> }
        \cup { << Exchange("RAT", "NC1", a, 1, 1) >> : a \in Asks }
        \cup { << Exchange("RAT", "IC1", 7, 6, 6), Exchange("RAT", "NC1", a, 1, 1) >> :
                 a \in {NULL, 50} }

InitPricing ==
    /\ now = 0
    /\ db = QuietDb
    /\ req = [r \in Requests |-> IdleReq(db)]
    /\ InitCache
    /\ gw = NoCall
    /\ auth = NoRun
    /\ cx = NoPrices
    /\ \E listing \in PricedListings, exchanges \in PriceTables :
          loc = [called |-> FALSE, listing |-> listing, exchanges |-> exchanges,
                 cx_prices |-> << >>, result |-> ContactMe]

\* a page renders the listing: cx_prices = get_cx_prices_bulk(db), then
\* format_price(listing, cx_prices) in the template
RenderPrice ==
    /\ ~loc.called
    /\ \E cx_prices \in {get_cx_prices_bulk(loc.exchanges)} :
          loc' = [loc EXCEPT !.called = TRUE,
                             !.cx_prices = cx_prices,
                             !.result = format_price(loc.listing, cx_prices)]
    /\ UNCHANGED <<now, syncVars, cacheVars, gw, auth, cx>>

SpecPricing == InitPricing /\ [][RenderPrice]_vars

\* the listing's pair is quoted in the lookup the page was given
QuoteExists ==
    <<loc.listing.material_ticker, loc.listing.price_exchange>> \in DOMAIN loc.cx_prices

QuotedAsk == loc.cx_prices[<<loc.listing.material_ticker, loc.listing.price_exchange>>]

CxRendered == loc.called /\ loc.listing.price_type = "cx_relative"

\* C21 as stated: a CX-relative listing is rendered with a computed figure
\* exactly when a quote exists for its (ticker, exchange) pair.
C21_FigureIffQuote ==
    CxRendered => (loc.result.figure # NULL <=> QuoteExists)

\* C21: a CX-relative listing is rendered with a computed figure exactly when
\* it has an offset and a quote with a non-zero ask exists for its (ticker,
\* exchange) pair; the figure is ask + offset for an absolute offset and
\* ask * (1 + offset/100) otherwise, rounded to a whole number; in every
\* other case the text is the offset specification alone ("CX price" for a
\* listing without an offset), and no rendering is an error.
C21_FigureIffOffsetAndAsk ==
    CxRendered =>
        LET l == loc.listing
            out == loc.result
            shown == l.price_value # NULL /\ QuoteExists /\ QuotedAsk # 0
        IN /\ out.form \in {"CX", "CX price"}
           /\ out.form = "CX price" <=> l.price_value = NULL
           /\ out.figure # NULL <=> shown
           /\ out.offset = l.price_value
           /\ out.form = "CX" => out.percent = ~l.price_cx_is_absolute
           /\ shown /\ l.price_cx_is_absolute
                 => out.figure = QuotedAsk + l.price_value
           /\ shown /\ ~l.price_cx_is_absolute
                 => /\ 2 * Hundredths * out.figure
                           >= 2 * QuotedAsk * (Hundredths + l.price_value) - Hundredths
                    /\ 2 * Hundredths * out.figure
                           <= 2 * QuotedAsk * (Hundredths + l.price_value) + Hundredths
           /\ shown /\ QuotedAsk = 100 /\ l.price_value = 0 - 10 => out.figure = 90

\* an ask of 50 with a percentage offset of -10 is rendered with the figure 45
C21_Witness ==
    /\ CxRendered
    /\ ~loc.listing.price_cx_is_absolute
    /\ loc.listing.price_value = 0 - 10
    /\ QuoteExists
    /\ QuotedAsk = 50
    /\ loc.result.figure = 45

(***************************************************************************)
(* Stock classification: utils.get_stock_status, the public profile's      *)
(* get_stock_status_for_listings and utils.get_bundle_stock_status.        *)
(***************************************************************************)
StockedListing(storage_id, ticker, reserve, available, threshold) ==
    [storage_id |-> storage_id, material_ticker |-> ticker, reserve_quantity |-> reserve,
     available_quantity |-> available, low_stock_threshold |-> threshold]

StockedBundle(stock_mode, quantity, available, threshold) ==
    [stock_mode |-> stock_mode, quantity |-> quantity, available_quantity |-> available,
     low_stock_threshold |-> threshold]

\* None is NoneStr: the listing carries no flag
get_stock_status(listing) ==
    IF listing.available_quantity = NULL THEN NoneStr
    ELSE IF listing.available_quantity = 0 THEN "out"
    ELSE LET threshold == IF listing.low_stock_threshold # NULL
                          THEN listing.low_stock_threshold ELSE 10
         IN IF listing.available_quantity <= threshold THEN "low" ELSE NoneStr

\* profile.py 56-71 for one listing: its entry of stock_status, "-" when the
\* loop gives it none
ProfileStockStatus_OwnThreshold(listing, storage_inventory) ==
    IF Bound(listing, storage_inventory)
    THEN LET available == ListingAvailable(listing, storage_inventory)
             threshold == IF listing.low_stock_threshold # NULL
                          THEN listing.low_stock_threshold ELSE 10
         IN IF available = 0 THEN "out"
            ELSE IF available <= threshold THEN "low"
            ELSE "ok"
    ELSE "-"

ProfileStockStatus(listing, storage_inventory) ==
    IF Bound(listing, storage_inventory)
    THEN LET available == ListingAvailable(listing, storage_inventory)
         IN IF available = 0 THEN "out"
            ELSE IF available <= 10 THEN "low"
            ELSE "ok"
    ELSE "-"

get_bundle_stock_status(bundle) ==
    IF bundle.low_stock_threshold = NULL
    THEN IF bundle.stock_mode = "MANUAL" /\ bundle.quantity # NULL /\ bundle.quantity = 0
         THEN "out"
         ELSE IF /\ bundle.stock_mode = "FIO_SYNC"
                 /\ bundle.available_quantity # NULL
                 /\ bundle.available_quantity = 0
         THEN "out"
         ELSE NoneStr
    ELSE IF bundle.stock_mode \in {"UNLIMITED", "MADE_TO_ORDER"} THEN NoneStr
    ELSE LET qty == IF bundle.stock_mode = "MANUAL" THEN bundle.quantity
                    ELSE IF bundle.stock_mode = "FIO_SYNC" THEN bundle.available_quantity
                    ELSE NULL
         IN IF qty = NULL THEN NoneStr
            ELSE IF qty = 0 THEN "out"
            ELSE IF qty <= bundle.low_stock_threshold THEN "low"
            ELSE NoneStr

\* a listing of FEO bound to storage A or unbound, the stock of FEO there,
\* and the available_quantity the last sync stored for it (none: never synced)
StockAmounts == {0, 3, 7, 10, 15, 25}
StockModes == {"MANUAL", "UNLIMITED", "MADE_TO_ORDER", "FIO_SYNC"}

InitStock ==
    /\ now = 0
    /\ db = QuietDb
    /\ req = [r \in Requests |-> IdleReq(db)]
    /\ InitCache
    /\ gw = NoCall
    /\ auth = NoRun
    /\ cx = NoPrices
    /\ \E amount \in StockAmounts, storage_id \in {NoneStr, "A"}, reserve \in {NULL, 2},
          threshold \in {NULL, 5, 20}, synced \in BOOLEAN,
          stock_mode \in StockModes, quantity \in {NULL, 0, 4}, bavailable \in {NULL, 0, 4},
          bthreshold \in {NULL, 3, 10} :
          LET storage_inventory == [a \in {"A"} |-> [t \in {"FEO"} |-> amount]]
              unsynced == StockedListing(storage_id, "FEO", reserve, NULL, threshold)
              listing ==
                  IF synced /\ Bound(unsynced, storage_inventory)
                  THEN [unsynced EXCEPT !.available_quantity =
                           ListingAvailable(unsynced, storage_inventory)]
                  ELSE unsynced
          IN loc = [called |-> "-", listing |-> listing,
                    bundle |-> StockedBundle(stock_mode, quantity, bavailable, bthreshold),
                    storage_inventory |-> storage_inventory, result |-> "-"]

\* a dashboard or listings page flags the listing with get_stock_status
ListingFlag ==
    /\ loc.called = "-"
    /\ loc' = [loc EXCEPT !.called = "get_stock_status",
                          !.result = get_stock_status(loc.listing)]
    /\ UNCHANGED <<now, syncVars, cacheVars, gw, auth, cx>>

\* the public profile classifies the listing from the live inventory
ProfileFlag ==
    /\ loc.called = "-"
    /\ loc' = [loc EXCEPT !.called = "get_stock_status_for_listings",
                          !.result = ProfileStockStatus(loc.listing, loc.storage_inventory)]
    /\ UNCHANGED <<now, syncVars, cacheVars, gw, auth, cx>>

BundleFlag ==
    /\ loc.called = "-"
    /\ loc' = [loc EXCEPT !.called = "get_bundle_stock_status",
                          !.result = get_bundle_stock_status(loc.bundle)]
    /\ UNCHANGED <<now, syncVars, cacheVars, gw, auth, cx>>

NextStock == ListingFlag \/ ProfileFlag \/ BundleFlag

SpecStock == InitStock /\ [][NextStock]_vars

\* the class the rule gives: "out" at 0, "low" up to the threshold, else "ok"
StockClass(available, threshold) ==
    IF available = 0 THEN "out"
    ELSE IF available <= threshold THEN "low"
    ELSE "ok"

OwnThreshold(listing) ==
    IF listing.low_stock_threshold # NULL THEN listing.low_stock_threshold ELSE 10

\* a page shows no flag for "ok"
Shown(class) == IF class = "ok" THEN NoneStr ELSE class

\* C22: every classification of a listing, by get_stock_status and by the
\* public profile, is "out" at 0, "low" for 0 < available <= the listing's own
\* low_stock_threshold (10 when it has none) and ok above it; a bundle without
\* a threshold is never "low" and is "out" only at a zero quantity in MANUAL
\* or FIO_SYNC mode.
C22_ClassifiedByOwnThreshold ==
    /\ loc.called = "get_stock_status" /\ loc.listing.available_quantity # NULL
          => loc.result = Shown(StockClass(loc.listing.available_quantity,
                                           OwnThreshold(loc.listing)))
    /\ loc.called = "get_stock_status_for_listings" /\ loc.result # "-"
          => loc.result = StockClass(ListingAvailable(loc.listing, loc.storage_inventory),
                                     OwnThreshold(loc.listing))
    /\ loc.called = "get_bundle_stock_status" /\ loc.bundle.low_stock_threshold = NULL
          => /\ loc.result # "low"
             /\ loc.result = "out" <=>
                   \/ loc.bundle.stock_mode = "MANUAL" /\ loc.bundle.quantity = 0
                   \/ loc.bundle.stock_mode = "FIO_SYNC" /\ loc.bundle.available_quantity = 0

(***************************************************************************)
(* Offers: the listing and bundle forms of routers/listings.py and         *)
(* routers/bundles.py, run between the syncs of the user's requests.       *)
(***************************************************************************)
\* the forms are submitted MaxEdits times
MaxEdits == 1

\* clean_str: an empty or "None" field is None
clean_str(val) == IF TruthyStr(val) /\ val # "None" THEN val ELSE NoneStr

\* listings.py 330-346: the new row has no available_quantity
create_listing(d, material_ticker, storage_id, reserve_quantity) ==
    [d EXCEPT !.listings =
        Append(@, Listing(clean_str(storage_id), material_ticker,
                          IF TruthyInt(reserve_quantity) THEN reserve_quantity ELSE 0,
                          NULL))]

\* listings.py 430-445: every form field is assigned, available_quantity is not
update_listing(d, listing_id, material_ticker, storage_id, reserve_quantity) ==
    [d EXCEPT !.listings[listing_id] =
        [@ EXCEPT !.material_ticker = material_ticker,
                  !.storage_id = clean_str(storage_id),
                  !.reserve_quantity =
                      IF TruthyInt(reserve_quantity) THEN reserve_quantity ELSE 0]]

\* bundles.py 255-283: storage only in FIO_SYNC mode, no available_quantity
create_bundle(d, stock_mode, storage_id, items) ==
    IF items = <<>> THEN d
    ELSE [d EXCEPT !.bundles =
            Append(@, Bundle(stock_mode,
                             IF stock_mode = "FIO_SYNC" THEN clean_str(storage_id)
                             ELSE NoneStr,
                             items, NULL))]

update_bundle_KeepsAvailable(d, bundle_id, stock_mode, storage_id, items) ==
    IF items = <<>> THEN d
    ELSE [d EXCEPT !.bundles[bundle_id] =
            [@ EXCEPT !.stock_mode = stock_mode,
                      !.storage_id = IF stock_mode = "FIO_SYNC" THEN clean_str(storage_id)
                                     ELSE NoneStr,
                      !.items = items]]

\* bundles.py 418-466: available_quantity is kept in FIO_SYNC mode on the same
\* storage and reset otherwise; a form without items is answered 400
update_bundle(d, bundle_id, stock_mode, storage_id, items) ==
    IF items = <<>> THEN d
    ELSE LET bundle == d.bundles[bundle_id]
             bundle_storage_id == IF stock_mode = "FIO_SYNC" THEN clean_str(storage_id)
                                  ELSE NoneStr
             bundle_available_quantity ==
                 IF stock_mode = "FIO_SYNC" /\ bundle.storage_id = bundle_storage_id
                 THEN bundle.available_quantity ELSE NULL
         IN [d EXCEPT !.bundles[bundle_id] =
                [@ EXCEPT !.stock_mode = stock_mode,
                          !.storage_id = bundle_storage_id,
                          !.items = items,
                          !.available_quantity = bundle_available_quantity]]

\* what the forms submit
FormStorages == {"", "A"}
FormModes == {"MANUAL", "FIO_SYNC"}
FormItems == { <<>>, <<BundleItem("FEO", 1)>> }

\* loc follows the offers: the inventory of the sync that committed last, the
\* number of forms submitted and the handler that ran last
NoOffers == [synced |-> FALSE, latest |-> EmptyDict, edits |-> 0, did |-> "-", row |-> 0]

Submitted(handler, row) == [loc EXCEPT !.edits = @ + 1, !.did = handler, !.row = row]

CreateListing ==
    /\ loc.edits < MaxEdits
    /\ Len(db.listings) < 3
    /\ db' = create_listing(db, "RAT", "A", NULL)
    /\ loc' = Submitted("create_listing", Len(db.listings) + 1)
    /\ UNCHANGED <<now, req, cacheVars, gw, auth, cx>>

UpdateListing ==
    /\ loc.edits < MaxEdits
    /\ \E listing_id \in 1..Len(db.listings), storage_id \in FormStorages :
          /\ db' = update_listing(db, listing_id, "FEO", storage_id, 3)
          /\ loc' = Submitted("update_listing", listing_id)
    /\ UNCHANGED <<now, req, cacheVars, gw, auth, cx>>

CreateBundle ==
    /\ loc.edits < MaxEdits
    /\ Len(db.bundles) < 3
    /\ db' = create_bundle(db, "FIO_SYNC", "A", <<BundleItem("FEO", 0)>>)
    /\ loc' = Submitted("create_bundle", Len(db.bundles) + 1)
    /\ UNCHANGED <<now, req, cacheVars, gw, auth, cx>>

UpdateBundle ==
    /\ loc.edits < MaxEdits
    /\ \E bundle_id \in 1..Len(db.bundles), stock_mode \in FormModes,
          storage_id \in {"A", "B"}, items \in FormItems :
          /\ db' = update_bundle(db, bundle_id, stock_mode, storage_id, items)
          /\ loc' = Submitted("update_bundle", bundle_id)
    /\ UNCHANGED <<now, req, cacheVars, gw, auth, cx>>

\* the sync's reconciliation, the inventory of a committed sync noted
SyncCommit(r) ==
    /\ ReconcileAndCommit(r)
    /\ loc' = IF req'[r].result = "True"
              THEN [loc EXCEPT !.synced = TRUE, !.latest = req'[r].inv, !.did = "sync"]
              ELSE [loc EXCEPT !.did = "sync"]

\* a user with a key, never synced: a listing and two bundles on storage A, one
\* of them empty, and a listing on storage B whose reserve may be a text
OfferDbs ==
    { [exists |-> TRUE, fio_username |-> "Alice", fio_api_key |-> "key",
       fio_last_synced |-> NULL,
       listings |-> << Listing("A", "FEO", 2, NULL), Listing("B", "FEO", reserve, NULL) >>,
       bundles |-> << Bundle("FIO_SYNC", "A",
                             <<BundleItem("FEO", 2), BundleItem("RAT", 1)>>, NULL),
                      Bundle("FIO_SYNC", "A", <<>>, 9) >>]
        : reserve \in {BAD} }

InitOffers ==
    /\ now = 0
    /\ db \in OfferDbs
    /\ req = [r \in Requests |-> IdleReq(db)]
    /\ InitCache
    /\ gw = NoCall
    /\ auth = NoRun
    /\ cx = NoPrices
    /\ loc = NoOffers

NextOffers ==
    \/ Call(1)
    \/ FetchStorage(1)
    \/ FetchSites(1)
    \/ FetchWarehouses(1)
    \/ SyncCommit(1)
    \/ LogAudit(1)
    \/ RefreshRespond(1)
    \/ DashboardRender(1)
    \/ CreateListing
    \/ UpdateListing
    \/ CreateBundle
    \/ UpdateBundle

SpecOffers == InitOffers /\ [][NextOffers]_vars

\* C23: once a sync has committed, every listing bound to a storage of the
\* latest synced snapshot has the stored available_quantity max(0, stock of
\* its ticker in that snapshot - its current reserve_quantity), in every state
\* syncs and listing edits reach.
C23_AvailableFollowsReserve ==
    loc.synced =>
        \A i \in 1..Len(db.listings) :
            LET listing == db.listings[i]
            IN Bound(listing, loc.latest) /\ ReserveOf(listing) # BAD
                  => listing.available_quantity =
                        Max(0, DictGet(loc.latest[listing.storage_id],
                                       listing.material_ticker, 0) - ReserveOf(listing))

\* the fields the sync computes: every listing's and every bundle's
\* available_quantity and the user's fio_last_synced
Computed(d) ==
    [listings |-> [i \in 1..Len(d.listings) |-> d.listings[i].available_quantity],
     bundles |-> [i \in 1..Len(d.bundles) |-> d.bundles[i].available_quantity],
     fio_last_synced |-> d.fio_last_synced]

\* the step is the reconciliation of a sync_user_fio_data call
SyncStep == \E r \in Requests : req[r].pc = "reconcile" /\ req'[r].pc = "returned"

\* the step is a form handler
FormStep(handler) == loc'.edits = loc.edits + 1 /\ loc'.did = handler

\* a row a form added has no computed value
ComputedWithNew(d, table) ==
    [Computed(d) EXCEPT ![table] = Append(@, NULL)]

MaxRefreshes == 1

Handlers ==
    {"public_profile", "listing_storages", "bundle_storages", "suggestions_datalist",
     "fetch_suggestions", "inventory_preview"}

\* the handlers that close the client in a finally block (profile.py 48-49,
\* main.py 221-222); the others close it as a statement of the try body
ClosesInFinally(handler) == handler \in {"public_profile", "fetch_suggestions"}

\* the handlers that decrypt the stored key before building the client
Decrypts(handler) == handler # "public_profile"

\* the slot a handler reads before fetching
SlotRead(handler) ==
    IF handler \in {"suggestions_datalist", "fetch_suggestions"} THEN "suggestions"
    ELSE IF handler = "inventory_preview" THEN "storage"
    ELSE "storage_locations"

\* `cached is not None` for the slot's entry of the user
Hit(c, slot, username) ==
    LET entry == get_user_cache(c, username)[CacheKey(username)][slot]
    IN entry.expires_at # NULL /\ ~is_expired(entry)

\* a cached payload: the value, and with it the payloads it was computed
\* from and the number of refreshes begun when the first of them was fetched
Cached(value, from, epoch) == [value |-> value, from |-> from, epoch |-> epoch]
From(storages, sites, warehouses) ==
    [storages |-> storages, sites |-> sites, warehouses |-> warehouses]
NoFrom == From(<<>>, <<>>, <<>>)

\* the preview's inventory: the items of the first storage whose AddressableId
\* (or StoreId) is the one asked for, a later item of a ticker replacing an
\* earlier one
RECURSIVE PreviewItems(_, _)
PreviewItems(rows, acc) ==
    IF rows = <<>> THEN acc
    ELSE PreviewItems(Tail(rows),
            IF TruthyStr(Head(rows).MaterialTicker)
            THEN DictPut(acc, Head(rows).MaterialTicker, Head(rows).MaterialAmount)
            ELSE acc)

PreviewInventory(storages, storage_id) ==
    LET hits == { i \in 1..Len(storages) :
                    /\ TruthyStr(storages[i].AddressableId)
                    /\ storages[i].AddressableId = storage_id }
    IN IF hits = {} THEN EmptyDict
       ELSE PreviewItems(storages[CHOOSE i \in hits : \A j \in hits : i <= j].StorageItems,
                         EmptyDict)

\* `in_stock // required if required > 0 else 0`
PreviewCanMake(item, inventory) ==
    IF item.quantity > 0 THEN DictGet(inventory, item.material_ticker, 0) \div item.quantity
    ELSE 0

RECURSIVE PreviewMin(_, _, _)
PreviewMin(item_list, inventory, min_can_make) ==
    IF item_list = <<>> THEN min_can_make
    ELSE LET can_make == PreviewCanMake(Head(item_list), inventory)
         IN PreviewMin(Tail(item_list), inventory,
                IF min_can_make = NULL \/ can_make < min_can_make THEN can_make
                ELSE min_can_make)

\* bundles.py 540-570: "can_make": min_can_make or 0; a stocked amount of
\* null makes `in_stock // required` raise
inventory_preview(inventory, item_list) ==
    IF \E k \in 1..Len(item_list) :
          /\ item_list[k].quantity > 0
          /\ DictGet(inventory, item_list[k].material_ticker, 0) = NULL
    THEN [kind |-> "raise", can_make |-> NULL]
    ELSE LET min_can_make == PreviewMin(item_list, inventory, NULL)
         IN [kind |-> "html",
             can_make |-> IF TruthyInt(min_can_make) THEN min_can_make ELSE 0]

NoResult == [kind |-> "-", can_make |-> NULL]

IdleView ==
    [handler |-> "-", pc |-> "idle", client |-> "none", raw_storages |-> <<>>,
     sites |-> <<>>, epoch |-> 0, storage_id |-> NoneStr, items |-> <<>>,
     result |-> NoResult]

\* what upstream answers a handler: a timeout, or the list
ViewStorageLists ==
    { << Storage("B", "sidB", "WAREHOUSE_STORE", NoneStr, <<Item("FEO", 4), Item("RAT", 8)>>),
         Storage("A", "sidA", "STORE", NoneStr, <<Item("RAT", 7)>>) >> }
ViewResponses(lists) ==
    { Response("timeout", 0, JsonNull) } \cup { Response("ok", 200, JsonList(l)) : l \in lists }
ProductionLists == { <<"FEO", "RAT">> }
PreviewItemLists ==
    { <<>>, <<BundleItem("RAT", 2)>>, <<BundleItem("RAT", 0)>>,
      <<BundleItem("RAT", 2), BundleItem("FEO", 0 - 1)>> }

\* the handler returns: with the client closed when it closes it in a finally
\* block or reached its close statement, as it is otherwise
Returned(view, reached_close, result) ==
    [view EXCEPT !.pc = "done", !.result = result,
                 !.client = IF view.client = "open"
                               /\ (reached_close \/ ClosesInFinally(view.handler))
                            THEN "closed" ELSE @]

\* the handler up to its first await: no key, a key that does not decrypt, a
\* cache hit, or a client and the first fetch
ViewStart(handler) ==
    /\ loc.view.pc \in {"idle", "done"}
    /\ \E storage_id \in {"A"}, items \in PreviewItemLists, decrypts \in BOOLEAN :
          LET view == [IdleView EXCEPT
                          !.handler = handler,
                          !.storage_id = IF handler = "inventory_preview" THEN storage_id
                                         ELSE NoneStr,
                          !.items = IF handler = "inventory_preview" THEN items ELSE <<>>]
              cached == get_slot(cache, SlotRead(handler), db.fio_username)
              gone == \/ handler = "inventory_preview" /\ items = <<>>
                      \/ ~TruthyStr(db.fio_api_key)
          IN /\ handler # "inventory_preview" => items = <<>>
             /\ Decrypts(handler) \/ decrypts
             /\ cache' = IF gone THEN cache ELSE get_user_cache(cache, db.fio_username)
             /\ loc' = [loc EXCEPT !.view =
                   IF gone THEN Returned(view, FALSE, NoResult)
                   ELSE IF Hit(cache, SlotRead(handler), db.fio_username)
                   THEN Returned(view, FALSE,
                           IF handler = "inventory_preview"
                           THEN inventory_preview(
                                    PreviewInventory(cached.value, storage_id), items)
                           ELSE [kind |-> "cached", can_make |-> NULL])
                   ELSE IF ~decrypts THEN Returned(view, FALSE, NoResult)
                   ELSE [view EXCEPT
                            !.client = "open",
                            !.pc = IF SlotRead(handler) = "suggestions" THEN "production"
                                   ELSE "storage"]]
    /\ UNCHANGED <<now, syncVars, all_materials, last, sets, gw, auth, cx>>

\* await client.get_user_storage(username); the preview ends here
ViewFetchStorage ==
    /\ loc.view.pc = "storage"
    /\ \E resp \in ViewResponses(ViewStorageLists) :
          LET res == get_user_storage(resp)
              view == loc.view
          IN IF res.kind = "raise"
             THEN /\ loc' = [loc EXCEPT !.view = Returned(view, FALSE, NoResult)]
                  /\ cache' = cache
             ELSE IF view.handler = "inventory_preview"
             THEN /\ cache' = set_slot(cache, "storage", db.fio_username,
                                       Cached(res.value.rows, NoFrom, loc.begun))
                  /\ loc' = [loc EXCEPT !.view =
                        Returned([view EXCEPT !.client = "closed"], TRUE,
                                 inventory_preview(
                                     PreviewInventory(res.value.rows, view.storage_id),
                                     view.items))]
             ELSE /\ loc' = [loc EXCEPT !.view =
                                [view EXCEPT !.pc = "sites",
                                             !.raw_storages = res.value.rows,
                                             !.epoch = loc.begun]]
                  /\ cache' = cache
    /\ UNCHANGED <<now, syncVars, all_materials, last, sets, gw, auth, cx>>

\* await client.get_user_sites(username)
ViewFetchSites ==
    /\ loc.view.pc = "sites"
    /\ \E resp \in ViewResponses(SiteLists) :
          LET res == get_user_sites(resp)
          IN loc' = [loc EXCEPT !.view =
                IF res.kind = "raise" THEN Returned(loc.view, FALSE, NoResult)
                ELSE [loc.view EXCEPT !.pc = "warehouses", !.sites = res.value.rows]]
    /\ UNCHANGED <<now, syncVars, cacheVars, gw, auth, cx>>

\* await client.get_user_warehouses(username), then with no further await:
\* the resolver, the cache writes, the close.  The public profile resolves
\* without the CX-station names and caches all four payloads; the dropdowns
\* resolve with get_cx_station_names(db) and cache the locations only
ViewFetchWarehouses ==
    /\ loc.view.pc = "warehouses"
    /\ \E resp \in ViewResponses(WarehouseLists) :
          LET res == get_user_warehouses(resp)
              view == loc.view
              warehouses == res.value.rows
              from == From(view.raw_storages, view.sites, warehouses)
              names == IF view.handler = "public_profile" THEN {}
                       ELSE loc.cx_station_names
              storage_locations ==
                  extract_storage_locations(view.raw_storages, view.sites, warehouses, names)
              username == db.fio_username
              located == set_slot(cache, "storage_locations", username,
                                  Cached(storage_locations, from, view.epoch))
          IN IF res.kind = "raise" \/ ExtractRaises(view.raw_storages)
             THEN /\ loc' = [loc EXCEPT !.view = Returned(view, FALSE, NoResult)]
                  /\ cache' = cache
             ELSE /\ loc' = [loc EXCEPT !.view =
                        Returned(view, TRUE, [kind |-> "fetched", can_make |-> NULL])]
                  /\ cache' =
                        IF view.handler = "public_profile"
                        THEN set_slot(
                               set_slot(
                                 set_slot(located, "storage", username,
                                          Cached(view.raw_storages, NoFrom, view.epoch)),
                                 "sites", username, Cached(view.sites, NoFrom, view.epoch)),
                               "warehouses", username,
                               Cached(warehouses, NoFrom, view.epoch))
                        ELSE located
    /\ UNCHANGED <<now, syncVars, all_materials, last, sets, gw, auth, cx>>

\* await client.get_user_production(username); the suggestions are the
\* tickers in production, as a sorted list
ViewFetchProduction ==
    /\ loc.view.pc = "production"
    /\ \E timeout \in BOOLEAN, answer \in ProductionLists :
          IF timeout
          THEN /\ loc' = [loc EXCEPT !.view = Returned(loc.view, FALSE, NoResult)]
               /\ cache' = cache
          ELSE /\ loc' = [loc EXCEPT !.view =
                     Returned(loc.view, TRUE, [kind |-> "fetched", can_make |-> NULL])]
               /\ cache' = set_slot(cache, "suggestions", db.fio_username,
                                    Cached(answer, NoFrom, loc.begun))
    /\ UNCHANGED <<now, syncVars, all_materials, last, sets, gw, auth, cx>>

\* refresh_fio_data up to the first await of its sync
ForcedRefreshBegin ==
    /\ loc.refresh = 0
    /\ loc.begun < MaxRefreshes
    /\ loc' = [loc EXCEPT !.begun = @ + 1, !.refresh = loc.begun + 1]
    /\ UNCHANGED <<now, syncVars, cacheVars, gw, auth, cx>>

\* refresh_fio_data from the return of its sync, which succeeded or failed:
\* the audit row, invalidate_user, the response
ForcedRefreshEnd ==
    /\ loc.refresh # 0
    /\ \E success \in BOOLEAN :
          db' = IF success THEN [db EXCEPT !.fio_last_synced = now] ELSE db
    /\ cache' = invalidate_user(cache, db.fio_username)
    /\ loc' = [loc EXCEPT !.refresh = 0, !.completed = loc.refresh]
    /\ UNCHANGED <<now, req, all_materials, last, sets, gw, auth, cx>>

InitViews ==
    /\ now = 0
    /\ db = QuietDb
    /\ req = [r \in Requests |-> IdleReq(db)]
    /\ InitCache
    /\ gw = NoCall
    /\ auth = NoRun
    /\ cx = NoPrices
    /\ \E cx_station_names \in CxStationSets :
          loc = [view |-> IdleView, cx_station_names |-> cx_station_names,
                 begun |-> 0, refresh |-> 0, completed |-> 0]

NextViews ==
    \/ \E handler \in Handlers : ViewStart(handler)
    \/ ViewFetchStorage
    \/ ViewFetchSites
    \/ ViewFetchWarehouses
    \/ ViewFetchProduction
    \/ ForcedRefreshBegin
    \/ ForcedRefreshEnd

SpecViews == InitViews /\ [][NextViews]_vars

\* C25: a handler that has returned has left no upstream client open: the
\* client it opened is closed on the success path and on every failure path.
C25_ClientClosedAtReturn ==
    loc.view.pc = "done" => loc.view.client # "open"

\* the user's live entry of a slot
Live(slot) == Hit(cache, slot, db.fio_username)
LiveEntry(slot) == get_slot(cache, slot, db.fio_username)

\* C29: a live storage_locations entry is the resolver's output for the
\* storage, sites and warehouses it was fetched with and the current
\* CX-station names, whichever handler stored it.
C29_CachedLocationsAreResolved ==
    Live("storage_locations") =>
        LET entry == LiveEntry("storage_locations")
        IN entry.value = extract_storage_locations(entry.from.storages, entry.from.sites,
                                                   entry.from.warehouses,
                                                   loc.cx_station_names)

\* C30: once a forced refresh has completed, every live entry of the user's
\* slots holds data fetched after that refresh began.
C30_NothingOlderThanRefresh ==
    \A slot \in Slots :
        Live(slot) => LiveEntry(slot).epoch >= loc.completed

\* a user with a key, never synced, whose FIO_SYNC bundles are bound to
\* storage A: one with a line item of quantity 1, 0 or -1, one without items
BundleDbs ==
    { [exists |-> TRUE, fio_username |-> "Alice", fio_api_key |-> "key",
       fio_last_synced |-> NULL,
       listings |-> << >>,
       bundles |-> << Bundle("FIO_SYNC", "A",
                             <<BundleItem("RAT", 1), BundleItem("FEO", quantity)>>, NULL),
                      Bundle("FIO_SYNC", "A", <<>>, 9) >>]
        : quantity \in {1, 0, 0 - 1} }

InitBundles ==
    /\ now = 0
    /\ db \in BundleDbs
    /\ req = [r \in Requests |-> IdleReq(db)]
    /\ InitCache
    /\ gw = NoCall
    /\ auth = NoRun
    /\ cx = NoPrices
    /\ loc = [view |-> IdleView, cx_station_names |-> {},
              begun |-> 0, refresh |-> 0, completed |-> 0]

\* the syncs of the user and the inventory preview of the bundle form
NextBundles ==
    \/ Call(1)
    \/ FetchStorage(1)
    \/ FetchSites(1)
    \/ FetchWarehouses(1)
    \/ Reconcile(1)
    \/ LogAudit(1)
    \/ RefreshRespond(1)
    \/ DashboardRender(1)
    \/ ViewStart("inventory_preview")
    \/ ViewFetchStorage

SpecBundles == InitBundles /\ [][NextBundles]_vars

\* the bundle or the item list has a line item that asks for no units
Unusable(items) == \E k \in 1..Len(items) : items[k].quantity <= 0

\* every line item is in stock
Stocked(items, inventory) ==
    \A k \in 1..Len(items) : DictGet(inventory, items[k].material_ticker, 0) >= 1

\* C27: a sync that commits gives every FIO_SYNC bundle bound to a storage of
\* its snapshot that has a line item of quantity zero or less, or no line
\* item at all, the available_quantity 0, whatever the stock; the inventory
\* preview of an item list with such a line item shows "can make 0".
C27_UnusableItemMakesZero ==
    [][/\ \A r \in Requests :
             /\ req[r].pc = "reconcile"
             /\ req'[r].pc = "returned"
             /\ req'[r].result = "True"
             => \A i \in 1..Len(db.bundles) :
                   /\ IsFioSync(db.bundles[i])
                   /\ Bound(db.bundles[i], req'[r].inv)
                   /\ Unusable(db.bundles[i].items) \/ db.bundles[i].items = <<>>
                   => db'.bundles[i].available_quantity = 0
       /\ /\ loc'.view.handler = "inventory_preview"
          /\ loc'.view.pc = "done"
          /\ loc'.view.result.kind = "html"
          /\ Unusable(loc'.view.items)
          => loc'.view.result.can_make = 0]_vars

\* storage A holds every item in plenty, the bundle with a line item of
\* quantity 0 or less was synced to 0 and so was the empty one, and the
\* preview of an item list with such a line item has shown 0 from stock
C27_Witness ==
    /\ req[1].pc = "returned"
    /\ req[1].result = "True"
    /\ Bound(db.bundles[1], req[1].inv)
    /\ Unusable(db.bundles[1].items)
    /\ Stocked(db.bundles[1].items, req[1].inv["A"])
    /\ db.bundles[1].available_quantity = 0
    /\ db.bundles[2].available_quantity = 0
    /\ loc.view.pc = "done"
    /\ loc.view.result.kind = "html"
    /\ Unusable(loc.view.items)
    /\ loc.view.client = "closed"
    /\ loc.view.result.can_make = 0

(***************************************************************************)
(* verify_api_key on every class of response to its two requests.          *)
(***************************************************************************)
InitVerify ==
    /\ now = 0
    /\ db = QuietDb
    /\ req = [r \in Requests |-> IdleReq(db)]
    /\ InitCache
    /\ auth = NoRun
    /\ cx = NoPrices
    /\ loc = NoResolve
    /\ \E r_sites \in GatewayResponses, r_planets \in GatewayResponses :
          gw = [endpoint |-> "-", resp |-> r_sites, planets |-> r_planets,
                out |-> ReturnNone]

\* await client.verify_api_key(username)
Verify ==
    /\ gw.endpoint = "-"
    /\ gw' = [gw EXCEPT !.endpoint = "verify_api_key",
                        !.out = verify_api_key(gw.resp, gw.planets)]
    /\ UNCHANGED <<now, syncVars, cacheVars, auth, cx, loc>>

SpecVerify == InitVerify /\ [][Verify]_vars

\* the sites request succeeded with data: a 200 whose body is a non-empty list
SitesWithData(resp) == resp.net = "ok" /\ resp.status = 200 /\ resp.body.json = "[..]"

\* C26: verify_api_key returns the user's data when the sites request
\* succeeds with data, and raises FIOAuthError whenever the key could not be
\* verified, also when the sites request returns no data.
C26_UnverifiedKeyRaisesAuthError ==
    gw.endpoint = "verify_api_key" =>
        /\ SitesWithData(gw.resp) /\ Get(gw.planets).kind # "raise"
              => gw.out.kind = "return"
        /\ ~SitesWithData(gw.resp)
              => gw.out.kind = "raise" /\ IsFIOAuthError(gw.out.exc)

(***************************************************************************)
(* The counts of the price sync: the pair sync_exchange_prices returns to  *)
(* admin.force_cx_sync, against the rows of the exchange table.            *)
(***************************************************************************)
MaxRuns == 4

\* lines 59-94 with the counters of lines 47-48: the loop over the snapshot,
\* up to the element that raises
RECURSIVE CountedLoop(_, _, _, _, _)
CountedLoop(data, i, rows, inserted, updated) ==
    IF i > Len(data)
    THEN [rows |-> rows, raised |-> FALSE, inserted |-> inserted, updated |-> updated]
    ELSE IF ~data[i].dict
    THEN [rows |-> rows, raised |-> TRUE, inserted |-> inserted, updated |-> updated]
    ELSE IF ~TruthyStr(data[i].MaterialTicker) \/ ~TruthyStr(data[i].ExchangeCode)
    THEN CountedLoop(data, i + 1, rows, inserted, updated)
    ELSE IF FirstMatch(rows, data[i].MaterialTicker, data[i].ExchangeCode) # 0
    THEN CountedLoop(data, i + 1, Upsert(rows, data[i]), inserted, updated + 1)
    ELSE CountedLoop(data, i + 1, Upsert(rows, data[i]), inserted + 1, updated)

\* sync_exchange_prices, lines 37-103: what it returns, the table it leaves and
\* whether its commit went through
Synced(inserted, updated, table, committed) ==
    [inserted |-> inserted, updated |-> updated, table |-> table, committed |-> committed]

sync_exchange_prices(table, answer, database_up) ==
    LET res == fetch_all_exchange_data(answer)
        l == CountedLoop(res.value, 1, table, 0, 0)
    IN IF res.kind = "raise" THEN Synced(0, 0, table, FALSE)
       ELSE IF res.value = <<>> THEN Synced(0, 0, table, FALSE)
       ELSE IF l.raised THEN Synced(l.inserted, l.updated, table, FALSE)
       ELSE IF Commit(table, l.rows, database_up).ok
       THEN Synced(l.inserted, l.updated, l.rows, TRUE)
       ELSE Synced(l.inserted, l.updated, table, FALSE)

\* no manual run yet
NoCounts ==
    [runs |-> 0, before |-> <<>>, answer |-> Answer("http_error", <<>>),
     returned |-> Synced(0, 0, <<>>, FALSE)]

InitCounts ==
    /\ now = 0
    /\ db = QuietDb
    /\ req = [r \in Requests |-> IdleReq(db)]
    /\ InitCache
    /\ gw = NoCall
    /\ auth = NoRun
    /\ cx = NoPrices
    /\ loc = NoCounts

\* force_cx_sync: one run on a session of its own, against what upstream and
\* the database do during it; the pair it reports is returned
ForceCxSync ==
    /\ loc.runs < MaxRuns
    /\ \E answer \in Upstreams, database_up \in BOOLEAN :
          LET out == sync_exchange_prices(cx.table, answer, database_up)
          IN /\ cx' = [cx EXCEPT !.table = out.table, !.upstream = answer,
                                 !.database_up = database_up]
             /\ loc' = [runs |-> loc.runs + 1, before |-> cx.table, answer |-> answer,
                        returned |-> out]
    /\ UNCHANGED <<now, syncVars, cacheVars, gw, auth>>

SpecCounts == InitCounts /\ [][ForceCxSync]_vars

\* the rows of the table before the run that the run rewrote
RowsUpdated ==
    IF ~loc.returned.committed THEN {}
    ELSE { i \in 1..Len(loc.before) :
             \E k \in 1..Len(loc.answer.body) :
                 /\ loc.answer.body[k].dict
                 /\ loc.answer.body[k].MaterialTicker = loc.before[i].material_ticker
                 /\ loc.answer.body[k].ExchangeCode = loc.before[i].exchange_code }

\* C28: the pair a run of sync_exchange_prices returns is the number of rows
\* the run added to the exchange table and the number of its rows the run
\* rewrote; a run that got no data or rolled back returns (0, 0)
C28_CountsArePersistedRows ==
    loc.runs > 0 =>
        /\ loc.returned.inserted = Len(cx.table) - Len(loc.before)
        /\ loc.returned.updated = Cardinality(RowsUpdated)
        /\ ~loc.returned.committed =>
              loc.returned.inserted = 0 /\ loc.returned.updated = 0

====
